---- MODULE Spec2Model ----
(***************************************************************************)
(* Segment metrics and multi-session comparison of the sprint annotator.   *)
(*                                                                         *)
(* Numbers.  A JavaScript number x (seconds or metres) is held as the      *)
(* integer x * Unit, so the model carries one decimal digit more than the  *)
(* three the code rounds to: rounding (roundTo, toFixed) is a real         *)
(* operation here and not the identity.  Arithmetic is exact; the          *)
(* floating-point error of the double arithmetic is not modelled.          *)
(* A value that may be null, undefined or non-finite is a tagged tuple.    *)
(***************************************************************************)
EXTENDS Integers, Sequences, FiniteSets, TLC

VARIABLES
    sessions,      \* the Session[] handed to the compare helpers
    view,          \* what the last call produced: "idle", "table", "diff", "metrics"
    mode,          \* "total" or "split": the helper that built rows
    granularity,   \* Granularity argument of the last split-table build
    rows,          \* TableRow[] returned by buildTotalTimeRows / buildSplitTimeRows
    referenceKey,  \* referenceKey argument of the last annotateDiffs
    diffRows,      \* rows returned by annotateDiffs
    metricsOf,     \* index of the session whose marks were handed to buildMetrics
    metricsDistances, \* distances argument of the last buildMetrics
    metricsRows,   \* MetricsRow[] returned by buildMetrics
    input,         \* the arguments of a single call of a core entry point
    output,        \* what that call returned
    draft,         \* AnnotateView's SessionDraft state, Null before a file is loaded
    edits,         \* how many operations the application has carried out
    store,         \* the "sessions" object store: videoKey -> Session
    uploads,       \* the relay's uploads.json: the list of upload records
    requests,      \* what the relay's clients have been answered so far
    phone          \* the annotator's phone-upload polling

\* the application state the comparison helpers and the core calls leave alone
appVars == <<draft, edits, store, uploads, requests, phone>>

vars == <<sessions, view, mode, granularity, rows, referenceKey, diffRows,
          metricsOf, metricsDistances, metricsRows, input, output, appVars>>

----------------------------------------------------------------------------
(* JavaScript values *)

Null == <<"null">>
Str(s) == <<"string", s>>
Undefined == <<"undefined">>
Num(n) == <<"number", n>>
NegInfinity == <<"-Infinity">>
PosInfinity == <<"Infinity">>
NaN == <<"NaN">>

IsNum(v) == Len(v) = 2 /\ v[1] = "number"
Val(v) == v[2]
\* value == null (loose equality: null or undefined)
IsNullish(v) == v = Null \/ v = Undefined
\* obj[key]
Get(obj, key) == IF key \in DOMAIN obj THEN obj[key] ELSE Undefined
\* a ?? b
Coalesce(a, b) == IF IsNullish(a) THEN b ELSE a

----------------------------------------------------------------------------
(* Number helpers: src/src/lib/utils.ts *)

Decimals == 3
Factor == 10 ^ Decimals
\* resolution of the model: Unit steps per second / per metre
Unit == 10 * Factor

Abs(x) == IF x < 0 THEN -x ELSE x
Sign(x) == IF x < 0 THEN -1 ELSE 1

\* Math.round(num / den), den > 0: the nearest integer, a tie going up
MathRound(num, den) == (2 * num + den) \div (2 * den)

\* roundTo(value, decimals): Math.round(value * 10**decimals) / 10**decimals
roundTo(value, decimals) ==
    LET factor == 10 ^ decimals
        step == Unit \div factor
    IN  MathRound(value, step) * step

\* Number(value.toFixed(digits)): the nearest multiple of 10**-digits, a tie
\* going away from zero
toFixed(value, digits) ==
    LET step == Unit \div (10 ^ digits)
    IN  Sign(value) * ((2 * Abs(value) + step) \div (2 * step)) * step

\* the fraction digits of a number with at most three decimals, as
\* Number.prototype.toString prints them: no trailing zeros
FractionDigits(milli) ==
    LET two == milli \div 10
    IN  IF milli % 100 = 0 THEN ToString(milli \div 100)
        ELSE IF milli % 10 = 0
             THEN (IF two < 10 THEN "0" ELSE "") \o ToString(two)
             ELSE (IF milli < 10 THEN "00" ELSE IF milli < 100 THEN "0" ELSE "")
                  \o ToString(milli)

\* Number.prototype.toString of a number with at most three decimals
NumberToString(value) ==
    LET milli == Abs(value) \div (Unit \div Factor)
        whole == milli \div Factor
        frac == milli % Factor
    IN  (IF value < 0 /\ milli # 0 THEN "-" ELSE "")
        \o ToString(whole)
        \o (IF frac = 0 THEN "" ELSE "." \o FractionDigits(frac))

\* distanceToLabel that prints the digits of the distance as handed in
distanceToLabel_Unrounded(distance) == NumberToString(distance)

\* rounded.toString(); the replace() calls of the non-integer branch strip
\* trailing zeros, of which toString prints none
distanceToLabel(distance) == NumberToString(toFixed(distance, 3))

\* the value of one decimal digit
Digit(c) == CHOOSE d \in 0..9 : ToString(d) = c

\* the value of a string of decimal digits, 0 for the empty string
RECURSIVE ParseDigits(_, _, _)
ParseDigits(text, i, acc) ==
    IF i > Len(text) THEN acc
    ELSE ParseDigits(text, i + 1, 10 * acc + Digit(SubSeq(text, i, i)))

\* Number(text) of a decimal literal: sign, digits, and at most four
\* fraction digits
Number(text) ==
    LET negative == Len(text) > 0 /\ SubSeq(text, 1, 1) = "-"
        first == IF negative THEN 2 ELSE 1
        dots == {i \in first..Len(text) : SubSeq(text, i, i) = "."}
        dot == IF dots = {} THEN Len(text) + 1 ELSE CHOOSE i \in dots : TRUE
        whole == ParseDigits(SubSeq(text, first, dot - 1), 1, 0)
        fraction == SubSeq(text, dot + 1, Len(text))
        scaled == ParseDigits(fraction, 1, 0) * (Unit \div (10 ^ Len(fraction)))
    IN  (IF negative THEN -1 ELSE 1) * (whole * Unit + scaled)

----------------------------------------------------------------------------
(* Array helpers *)

Min(S) == CHOOSE x \in S : \A y \in S : x <= y

\* Array.from(set).sort((a, b) => a - b)
RECURSIVE SortedFromSet(_)
SortedFromSet(S) ==
    IF S = {} THEN <<>>
    ELSE LET m == Min(S) IN <<m>> \o SortedFromSet(S \ {m})

Range(s) == {s[i] : i \in DOMAIN s}

\* array.at(-1)
Last(s) == s[Len(s)]

----------------------------------------------------------------------------
(* Split distances: src/unnamed/part_004 (lib/splits) *)

LAP_M == 250
QUARTER_M == (LAP_M * Unit) \div 4
HALF_M == (LAP_M * Unit) \div 2

SplitChoices == {"quarter", "half", "full"}

SPLIT_STEPS ==
    [choice \in SplitChoices |->
        CASE choice = "quarter" -> QUARTER_M
          [] choice = "half" -> HALF_M
          [] choice = "full" -> LAP_M * Unit]

\* the 1e-6 tolerance of the loop, compared in millionths
Millionth == 10 ^ 6
PerUnit == Millionth \div Unit

\* SplitLoop that stops one step late
RECURSIVE SplitLoop_Overshoot(_, _, _, _)
SplitLoop_Overshoot(distance, step, totalMeters, distances) ==
    IF (distance - step) * PerUnit <= totalMeters * PerUnit + 1
    THEN SplitLoop_Overshoot(distance + step, step, totalMeters,
                             Append(distances, toFixed(distance, 3)))
    ELSE distances

\* for (distance = step; distance <= totalMeters + 1e-6; distance += step) push
RECURSIVE SplitLoop(_, _, _, _)
SplitLoop(distance, step, totalMeters, distances) ==
    IF distance * PerUnit <= totalMeters * PerUnit + 1
    THEN SplitLoop(distance + step, step, totalMeters,
                   Append(distances, toFixed(distance, 3)))
    ELSE distances

\* buildSplitDistances that sorts the list without the Set
buildSplitDistances_NoDedupe(totalMeters, choice) ==
    LET step == SPLIT_STEPS[choice]
    IN  IF step <= 0 \/ totalMeters <= 0 THEN <<>>
        ELSE LET looped == SplitLoop(step, step, totalMeters, <<>>)
                 distances ==
                    IF Len(looped) = 0
                       \/ Last(looped) * PerUnit < totalMeters * PerUnit - 1
                    THEN Append(looped, toFixed(totalMeters, 3))
                    ELSE looped
             IN  SortSeq(distances, LAMBDA a, b : a < b)

\* buildSplitDistances without the test for an empty list before the append
buildSplitDistances_NoEmptyTest(totalMeters, choice) ==
    LET step == SPLIT_STEPS[choice]
    IN  IF step <= 0 \/ totalMeters <= 0 THEN <<>>
        ELSE LET looped == SplitLoop(step, step, totalMeters, <<>>)
                 distances ==
                    IF Len(looped) # 0
                       /\ Last(looped) * PerUnit < totalMeters * PerUnit - 1
                    THEN Append(looped, toFixed(totalMeters, 3))
                    ELSE looped
             IN  SortedFromSet(Range(distances))

buildSplitDistances(totalMeters, choice) ==
    LET step == SPLIT_STEPS[choice]
    IN  IF step <= 0 \/ totalMeters <= 0 THEN <<>>
        ELSE LET looped == SplitLoop(step, step, totalMeters, <<>>)
                 distances ==
                    IF Len(looped) = 0
                       \/ Last(looped) * PerUnit < totalMeters * PerUnit - 1
                    THEN Append(looped, toFixed(totalMeters, 3))
                    ELSE looped
             IN  SortedFromSet(Range(distances))

----------------------------------------------------------------------------
(* The annotator's draft helpers: src/src/components/annotate/AnnotateView.tsx *)

\* a marks object with no key (an absent base)
NoMarks == [key \in {} |-> Null]

RECURSIVE SanitizeLoop(_, _, _)
SanitizeLoop(distances, unique, result) ==
    IF distances = <<>> THEN result
    ELSE LET raw == Head(distances)
             rounded == toFixed(raw, 3)
             label == distanceToLabel(rounded)
         IN  IF raw <= 0 \/ label = "15" \/ label \in unique
             THEN SanitizeLoop(Tail(distances), unique, result)
             ELSE SanitizeLoop(Tail(distances), unique \cup {label},
                               Append(result, rounded))

sanitizeDistances(distances) ==
    SortSeq(SanitizeLoop(distances, {}, <<>>), LAMBDA a, b : a < b)

\* ensureMarks that keeps only the fixed keys and the labels of the list
ensureMarks_ListedOnly(distances, base) ==
    LET fixed == {"Start time", "Reaction time", "15"}
        labels == {distanceToLabel(distances[i]) : i \in DOMAIN distances}
    IN  [label \in fixed \cup labels |-> Coalesce(Get(base, label), Null)]

ensureMarks(distances, base) ==
    LET fixed == {"Start time", "Reaction time", "15"}
        labels == DOMAIN base \cup {distanceToLabel(distances[i]) : i \in DOMAIN distances}
    IN  [label \in fixed \cup labels |-> Coalesce(Get(base, label), Null)]

----------------------------------------------------------------------------
(* Session helpers: src/src/lib/session.ts *)

getStartTime(marks) == Coalesce(Get(marks, "Start time"), Null)

\* distances.map(...).filter(Boolean): an entry for each distance whose mark
\* is recorded, in the order of the list
RECURSIVE SeriesEntries(_, _, _)
SeriesEntries(distances, marks, start) ==
    IF distances = <<>> THEN <<>>
    ELSE LET distance == Head(distances)
             value == Get(marks, distanceToLabel(distance))
             rest == SeriesEntries(Tail(distances), marks, start)
         IN  IF value = Null \/ value = Undefined THEN rest
             ELSE <<[distance |-> distance,
                     time |-> roundTo(Val(value) - Val(start), 3)]>> \o rest

\* buildDistanceSeries that sorts the distances first
buildDistanceSeries_Sorted(session) ==
    LET start == getStartTime(session.marks_abs)
    IN  IF start = Null THEN <<>>
        ELSE SeriesEntries(SortSeq(session.distances, LAMBDA a, b : a < b),
                           session.marks_abs, start)

buildDistanceSeries(session) ==
    LET start == getStartTime(session.marks_abs)
    IN  IF start = Null THEN <<>>
        ELSE SeriesEntries(session.distances, session.marks_abs, start)

\* buildSplitSeries over the session's stored distances
buildSplitSeries_StoredDistances(session, choice) ==
    LET start == getStartTime(session.marks_abs)
    IN  IF start = Null THEN <<>>
        ELSE SeriesEntries(session.distances, session.marks_abs, start)

buildSplitSeries(session, choice) ==
    LET distances == buildSplitDistances(session.distance_total_m, choice)
        start == getStartTime(session.marks_abs)
    IN  IF start = Null THEN <<>>
        ELSE SeriesEntries(distances, session.marks_abs, start)

----------------------------------------------------------------------------
(* Comparison tables: src/src/lib/compare.ts *)

\* the keys of a values object filled session by session
VideoKeys(list) == {list[i].videoKey : i \in DOMAIN list}

\* the session whose assignment to values[key] is the last one
LastWithKey(list, key) ==
    list[CHOOSE i \in DOMAIN list :
            /\ list[i].videoKey = key
            /\ \A j \in DOMAIN list : list[j].videoKey = key => j <= i]

\* TotalDistances filled from the first session alone
TotalDistances_FirstSession(list) ==
    {0}
    \cup UNION {{roundTo(list[i].distances[j], 3) : j \in DOMAIN list[i].distances}
                : i \in DOMAIN list \cap {1}}
    \cup {15 * Unit : i \in {k \in DOMAIN list : Get(list[k].marks_abs, "15") # Undefined}}

\* the row distances of buildTotalTimeRows: the Set filled from [0]
TotalDistances(list) ==
    {0}
    \cup UNION {{roundTo(list[i].distances[j], 3) : j \in DOMAIN list[i].distances}
                : i \in DOMAIN list}
    \cup {15 * Unit : i \in {k \in DOMAIN list : Get(list[k].marks_abs, "15") # Undefined}}

\* TotalValue with the distance-0 test ahead of the Start test
TotalValue_ZeroFirst(session, distance) ==
    LET start == getStartTime(session.marks_abs)
        absolute == Get(session.marks_abs, distanceToLabel(distance))
    IN  IF distance = 0 THEN Num(0)
        ELSE IF start = Null \/ IsNullish(absolute) THEN Null
        ELSE Num(roundTo(Val(absolute) - Val(start), 3))

\* TotalValue that reports the mark itself, Start not taken off
TotalValue_NoStartOffset(session, distance) ==
    LET start == getStartTime(session.marks_abs)
        absolute == Get(session.marks_abs, distanceToLabel(distance))
    IN  IF start = Null THEN Null
        ELSE IF distance = 0 THEN Num(0)
        ELSE IF IsNullish(absolute) THEN Null
        ELSE Num(roundTo(Val(absolute), 3))

\* the body of the loop over sessions in buildTotalTimeRows
TotalValue(session, distance) ==
    LET start == getStartTime(session.marks_abs)
        fifteen == Get(session.marks_abs, "15")
        absolute == Get(session.marks_abs, distanceToLabel(distance))
    IN  IF start = Null THEN Null
        ELSE IF distance = 0 THEN Num(0)
        ELSE IF distance = 15 * Unit /\ ~IsNullish(fifteen)
             THEN Num(roundTo(Val(fifteen) - Val(start), 3))
        ELSE IF IsNullish(absolute) THEN Null
        ELSE Num(roundTo(Val(absolute) - Val(start), 3))

buildTotalTimeRows(list) ==
    LET sorted == SortedFromSet(TotalDistances(list))
    IN  [r \in DOMAIN sorted |->
            [distance |-> sorted[r],
             label |-> IF sorted[r] = 0 THEN "Start" ELSE distanceToLabel(sorted[r]),
             values |-> [key \in VideoKeys(list) |->
                            TotalValue(LastWithKey(list, key), sorted[r])]]]

\* maxDistance that keeps the last session's distance
maxDistance_Last(list) == IF list = <<>> THEN 0 ELSE Last(list).distance_total_m

\* sessions.reduce((max, s) => Math.max(max, s.distance_total_m ?? 0), 0)
RECURSIVE maxDistance(_)
maxDistance(list) ==
    IF list = <<>> THEN 0
    ELSE LET rest == maxDistance(SubSeq(list, 1, Len(list) - 1))
             own == Last(list).distance_total_m
         IN  IF own > rest THEN own ELSE rest

\* SplitValue measured from Start in every row
SplitValue_FromStart(session, distance, previous) ==
    LET start == getStartTime(session.marks_abs)
        currentValue == Get(session.marks_abs, distanceToLabel(distance))
        previousValue == IF previous = 0 THEN start
                         ELSE Get(session.marks_abs, distanceToLabel(previous))
    IN  IF start = Null THEN Null
        ELSE IF IsNullish(currentValue) \/ IsNullish(previousValue) THEN Null
        ELSE Num(roundTo(Val(currentValue) - Val(start), 3))

\* the body of the loop over sessions in buildSplitTimeRows
SplitValue(session, distance, previous) ==
    LET start == getStartTime(session.marks_abs)
        currentKey == distanceToLabel(distance)
        previousKey == IF previous = 0 THEN "Start time" ELSE distanceToLabel(previous)
        currentValue == Get(session.marks_abs, currentKey)
        previousValue == IF previous = 0 THEN start ELSE Get(session.marks_abs, previousKey)
    IN  IF start = Null THEN Null
        ELSE IF IsNullish(currentValue) \/ IsNullish(previousValue) THEN Null
        ELSE Num(roundTo(Val(currentValue) - Val(previousValue), 3))

RECURSIVE SplitRowsLoop(_, _, _)
SplitRowsLoop(list, distances, built) ==
    IF distances = <<>> THEN built
    ELSE LET distance == Head(distances)
             previous == IF built = <<>> THEN 0 ELSE Last(built).distance
             row == [distance |-> distance,
                     label |-> distanceToLabel(distance),
                     values |-> [key \in VideoKeys(list) |->
                                    SplitValue(LastWithKey(list, key), distance, previous)]]
         IN  SplitRowsLoop(list, Tail(distances), Append(built, row))

buildSplitTimeRows(list, choice) ==
    SplitRowsLoop(list, buildSplitDistances(maxDistance(list), choice), <<>>)

\* Delta without the test that the session is the reference itself
Delta_NoSelfTest(value, referenceValue, key, reference) ==
    IF referenceValue = Null \/ value = Null
    THEN Null
    ELSE Num(roundTo(Val(value) - Val(referenceValue), 3))

\* Delta with the subtraction turned round
Delta_Reversed(value, referenceValue, key, reference) ==
    IF referenceValue = Null \/ value = Null \/ Str(key) = reference
    THEN Null
    ELSE Num(roundTo(Val(referenceValue) - Val(value), 3))

\* one cell of annotateDiffs
Delta(value, referenceValue, key, reference) ==
    IF referenceValue = Null \/ value = Null \/ Str(key) = reference
    THEN Null
    ELSE Num(roundTo(Val(value) - Val(referenceValue), 3))

annotateDiffs(table, reference) ==
    [r \in DOMAIN table |->
        LET row == table[r]
            \* referenceKey ? row.values[referenceKey] ?? null : null
            referenceValue ==
                IF reference # Null /\ reference # Str("")
                THEN Coalesce(Get(row.values, Val(reference)), Null)
                ELSE Null
        IN  [distance |-> row.distance,
             label |-> row.label,
             values |-> row.values,
             deltas |-> [key \in DOMAIN row.values |->
                            Delta(row.values[key], referenceValue, key, reference)]]]

buildSeriesForChart(session) == buildDistanceSeries(session)

\* ChartValue with 0 for a missing point
ChartValue_Zero(series, distance) ==
    LET hits == {k \in DOMAIN series : toFixed(series[k].distance, 3) = distance}
    IN  IF hits = {} THEN Num(0)
        ELSE Num(series[CHOOSE k \in hits : \A j \in hits : j <= k].time)

\* timeMap.get(videoKey)?.get(distance) ?? null: the time of the last point
\* of the series set under the rounded distance
ChartValue(series, distance) ==
    LET hits == {k \in DOMAIN series : toFixed(series[k].distance, 3) = distance}
    IN  IF hits = {} THEN Null
        ELSE Num(series[CHOOSE k \in hits : \A j \in hits : j <= k].time)

\* CompareView.chartData
chartData(selectedSessions) ==
    LET unionDistances ==
            UNION {{toFixed(buildSeriesForChart(selectedSessions[i])[k].distance, 3)
                      : k \in DOMAIN buildSeriesForChart(selectedSessions[i])}
                   : i \in DOMAIN selectedSessions}
        distances == SortedFromSet(unionDistances)
    IN  [r \in DOMAIN distances |->
            [distance |-> distances[r],
             values |-> [key \in VideoKeys(selectedSessions) |->
                            ChartValue(buildSeriesForChart(LastWithKey(selectedSessions, key)),
                                       distances[r])]]]

----------------------------------------------------------------------------
(* Segment metrics: src/src/lib/metrics.ts *)

RECURSIVE Gcd(_, _)
Gcd(a, b) == IF b = 0 THEN a ELSE Gcd(b, a % b)

\* the fraction num / den (den # 0) in lowest terms, with a positive denominator
Rat(num, den) ==
    LET g == Gcd(Abs(num), Abs(den))
    IN  [n |-> Sign(den) * (num \div g), d |-> Abs(den) \div g]

RatSub(x, y) == Rat(x.n * y.d - y.n * x.d, x.d * y.d)

RatMul(x, y) ==
    LET a == Rat(x.n, y.d)
        b == Rat(y.n, x.d)
    IN  [n |-> a.n * b.n, d |-> a.d * b.d]

RatDiv(x, y) == RatMul(x, Rat(y.d, y.n))

\* Math.round(x * 10**digits) for 0 <= rem / den < 1, by long division
RECURSIVE ShiftRound(_, _, _, _)
ShiftRound(whole, rem, den, digits) ==
    IF digits = 0 THEN (IF rem >= den - rem THEN whole + 1 ELSE whole)
    ELSE ShiftRound(10 * whole + (10 * rem) \div den, (10 * rem) % den, den, digits - 1)

\* roundTo(value, 3) of a rate, held as its count of thousandths
roundRate(x) == Num(ShiftRound(x.n \div x.d, x.n % x.d, x.d, Decimals))

\* uniqueDistances left in the order of first occurrence
uniqueDistances_Unsorted(distances) ==
    LET keep == {i \in DOMAIN distances :
                    /\ toFixed(distances[i], 3) > 0
                    /\ \A j \in 1..(i - 1) :
                          toFixed(distances[j], 3) # toFixed(distances[i], 3)}
        kept == SortedFromSet(keep)
    IN  [k \in DOMAIN kept |-> toFixed(distances[kept[k]], 3)]

\* uniqueDistances without the filter on d > 0
uniqueDistances_KeepNonPositive(distances) ==
    SortedFromSet({toFixed(distances[i], 3) : i \in DOMAIN distances})

\* uniqueDistances: the Set of Number(d.toFixed(3)), > 0, sorted
uniqueDistances(distances) ==
    SortedFromSet({d \in {toFixed(distances[i], 3) : i \in DOMAIN distances} : d > 0})

points(distances, marks) ==
    LET unique == uniqueDistances(distances)
    IN  <<[distance |-> 0, label |-> "Start time", time |-> Get(marks, "Start time")]>>
        \o [i \in DOMAIN unique |->
                [distance |-> unique[i],
                 label |-> distanceToLabel(unique[i]),
                 time |-> Coalesce(Get(marks, distanceToLabel(unique[i])), Null)]]

\* previous ? (velocityMs - previous.deltaD / previous.deltaT) / deltaT : null,
\* then roundTo; a division of a positive number by zero gives Infinity
acceleration(built, velocityMs, deltaT) ==
    IF built = <<>> THEN Null
    ELSE LET previous == Last(built)
         IN  IF previous.deltaT = 0 THEN NegInfinity
             ELSE roundRate(RatDiv(RatSub(velocityMs, Rat(previous.deltaD, previous.deltaT)),
                                   Rat(deltaT, Unit)))

\* MetricsStep whose acceleration is null after a skipped pair
MetricsStep_ResetOnSkip(current, next, built) ==
    IF current.time = Null \/ IsNullish(next.time) THEN built
    ELSE IF ~IsNum(current.time) THEN built
    ELSE LET deltaT == Val(next.time) - Val(current.time)
             deltaD == next.distance - current.distance
         IN  IF deltaT <= 0 \/ deltaD <= 0 THEN built
             ELSE LET velocityMs == Rat(deltaD, deltaT)
                      velocityKmh == RatMul(velocityMs, Rat(36, 10))
                  IN  Append(built,
                             [from |-> roundTo(current.distance, 3),
                              to |-> roundTo(next.distance, 3),
                              deltaT |-> roundTo(deltaT, 3),
                              deltaD |-> roundTo(deltaD, 3),
                              velocityKmh |-> roundRate(velocityKmh),
                              acceleration |->
                                 IF built # <<>> /\ Last(built).to # current.distance
                                 THEN Null
                                 ELSE acceleration(built, velocityMs, deltaT)])

\* the body of the loop over consecutive points: the rows after this pair
MetricsStep(current, next, built) ==
    IF current.time = Null \/ IsNullish(next.time) THEN built
    \* an undefined time makes deltaT NaN, which Number.isFinite rejects
    ELSE IF ~IsNum(current.time) THEN built
    ELSE LET deltaT == Val(next.time) - Val(current.time)
             deltaD == next.distance - current.distance
         IN  IF deltaT <= 0 \/ deltaD <= 0 THEN built
             ELSE LET velocityMs == Rat(deltaD, deltaT)
                      velocityKmh == RatMul(velocityMs, Rat(36, 10))
                  IN  Append(built,
                             [from |-> roundTo(current.distance, 3),
                              to |-> roundTo(next.distance, 3),
                              deltaT |-> roundTo(deltaT, 3),
                              deltaD |-> roundTo(deltaD, 3),
                              velocityKmh |-> roundRate(velocityKmh),
                              acceleration |-> acceleration(built, velocityMs, deltaT)])

RECURSIVE MetricsLoop(_, _, _)
MetricsLoop(pts, i, built) ==
    IF i > Len(pts) - 1 THEN built
    ELSE MetricsLoop(pts, i + 1, MetricsStep(pts[i], pts[i + 1], built))

\* buildMetrics without the early return for a missing Start
buildMetrics_NoStartTest(distances, marks) ==
    MetricsLoop(points(distances, marks), 1, <<>>)

buildMetrics(distances, marks) ==
    LET startAbs == Get(marks, "Start time")
    IN  IF startAbs = Null \/ startAbs = Undefined THEN <<>>
        ELSE MetricsLoop(points(distances, marks), 1, <<>>)

----------------------------------------------------------------------------
(* The sessions compared: each is a draft as loadFile builds it for a track *)
(* length and split choice, with marks recorded on it, as saved to the     *)
(* store; or a stored record that lacks a key.                             *)

MaxSessions == 2

Configs ==
    {[total |-> 150 * Unit, choice |-> "half"],
     [total |-> 200 * Unit, choice |-> "quarter"]}

\* loadFile: sanitizeDistances(buildSplitDistances(distanceTotal, splitChoice))
DraftDistances(config) ==
    sanitizeDistances(buildSplitDistances(config.total, config.choice))

\* elapsed time from the start to each checkpoint of the recorded efforts
Elapsed ==
    (QUARTER_M :> 3 * Unit) @@ (HALF_M :> 65 * Factor) @@ (150 * Unit :> 8 * Unit)
    @@ (3 * QUARTER_M :> 10 * Unit) @@ (200 * Unit :> 112 * Factor)
    @@ (LAP_M * Unit :> 14 * Unit)

\* What was recorded: every mark ("full"), every mark by a slower rider whose
\* marks fall between two thousandths ("slower"), no Start ("startNull",
\* "startAbsent"), a record without the "15" and "Reaction time" keys
\* ("noFixedKeys"), the 15 m mark too ("fifteen"), only Start ("onlyStart"),
\* a first mark 0.0004 s after Start ("close"), a second mark entered before
\* or at the first ("backwards", "tie"), or one checkpoint left out ("skip").
Plans(n) ==
    {<<kind, 0>> : kind \in {"full", "slower", "startNull", "startAbsent", "noFixedKeys",
                             "fifteen", "onlyStart", "close", "backwards", "tie"}}
    \cup {<<"skip", i>> : i \in 1..n}

RecordedMarks(distances, plan) ==
    LET kind == plan[1]
        start == IF kind = "slower" THEN 6 * Unit ELSE 5 * Unit
        at(j) == IF kind = "slower" THEN start + Elapsed[distances[j]] + 5 * Factor + 5
                 ELSE start + Elapsed[distances[j]]
        blank == ensureMarks(distances, NoMarks)
        index(label) == CHOOSE j \in DOMAIN distances : distanceToLabel(distances[j]) = label
        recorded ==
            [label \in DOMAIN blank |->
                IF label = "Start time"
                THEN (IF kind = "startNull" THEN Null ELSE Num(start))
                ELSE IF label = "Reaction time" THEN Null
                ELSE IF label = "15"
                THEN (IF kind = "fifteen" THEN Num(start + 12 * Factor) ELSE Null)
                ELSE LET j == index(label)
                     IN  IF kind = "onlyStart" \/ (kind = "skip" /\ plan[2] = j) THEN Null
                         ELSE IF kind = "close" /\ j = 1 THEN Num(start + 4)
                         ELSE IF kind = "backwards" /\ j = 2 THEN Num(at(1) - 5 * Factor)
                         ELSE IF kind = "tie" /\ j = 2 THEN Num(at(1))
                         ELSE Num(at(j))]
        dropped == IF kind = "startAbsent" THEN {"Start time"}
                   ELSE IF kind = "noFixedKeys" THEN {"15", "Reaction time"}
                   ELSE {}
    IN  [label \in DOMAIN recorded \ dropped |-> recorded[label]]

SessionChoices ==
    UNION {{<<config, plan>> : plan \in Plans(Len(DraftDistances(config)))}
           : config \in Configs}

MakeSession(i, choice) ==
    LET config == choice[1]
        distances == DraftDistances(config)
    IN  [videoKey |-> "key" \o ToString(i),
         distance_total_m |-> config.total,
         split_choice |-> config.choice,
         distances |-> distances,
         marks_abs |-> RecordedMarks(distances, choice[2])]

ReferenceKeys == {Null} \cup {Str("key" \o ToString(i)) : i \in 1..(MaxSessions + 1)}

----------------------------------------------------------------------------
\* useState<SessionDraft | null>(null): no draft
NoDraft == [draft |-> Null]

\* useState<string | null>(null): no polling session
NoPhone == [sessionId |-> Null]

\* nothing loaded, stored, uploaded or polled
AppIdle ==
    /\ draft = NoDraft
    /\ edits = 0
    /\ store = NoMarks
    /\ uploads = <<>>
    /\ requests = [posted |-> {}, consumed |-> {}, deleted |-> {}]
    /\ phone = NoPhone

(* The calls: one helper is applied to the sessions drawn, and annotateDiffs *)
(* to the table a builder returned, as CompareView does.                    *)

Init ==
    /\ \E n \in 0..MaxSessions :
          \E pick \in [1..n -> SessionChoices] :
             sessions = [i \in 1..n |-> MakeSession(i, pick[i])]
    /\ view = "idle"
    /\ mode = "total"
    /\ granularity = "quarter"
    /\ rows = <<>>
    /\ referenceKey = Null
    /\ diffRows = <<>>
    /\ metricsOf = 0
    /\ metricsDistances = <<>>
    /\ metricsRows = <<>>
    /\ input = <<>>
    /\ output = <<>>
    /\ AppIdle

BuildTotalTimeRows ==
    /\ view = "idle"
    /\ view' = "table"
    /\ mode' = "total"
    /\ rows' = buildTotalTimeRows(sessions)
    /\ diffRows' = <<>>
    /\ metricsOf' = 0
    /\ metricsDistances' = <<>>
    /\ metricsRows' = <<>>
    /\ UNCHANGED <<sessions, granularity, referenceKey, input, output, appVars>>

BuildSplitTimeRows(choice) ==
    /\ view = "idle"
    /\ view' = "table"
    /\ mode' = "split"
    /\ granularity' = choice
    /\ rows' = buildSplitTimeRows(sessions, choice)
    /\ diffRows' = <<>>
    /\ metricsOf' = 0
    /\ metricsDistances' = <<>>
    /\ metricsRows' = <<>>
    /\ UNCHANGED <<sessions, referenceKey, input, output, appVars>>

AnnotateDiffs(reference) ==
    /\ view = "table"
    /\ view' = "diff"
    /\ referenceKey' = reference
    /\ diffRows' = annotateDiffs(rows, reference)
    /\ UNCHANGED <<sessions, mode, granularity, rows, metricsOf, metricsDistances,
                   metricsRows, input, output,
                   appVars>>

\* MetricsPanel: buildMetrics(buildSplitDistances(distanceTotal, tab.key), marks)
BuildMetrics(i, tab) ==
    /\ view = "idle"
    /\ view' = "metrics"
    /\ metricsOf' = i
    /\ metricsDistances' = buildSplitDistances(sessions[i].distance_total_m, tab)
    /\ metricsRows' = buildMetrics(metricsDistances', sessions[i].marks_abs)
    /\ rows' = <<>>
    /\ diffRows' = <<>>
    /\ UNCHANGED <<sessions, mode, granularity, referenceKey, input, output, appVars>>

Next ==
    \/ BuildTotalTimeRows
    \/ \E choice \in SplitChoices : BuildSplitTimeRows(choice)
    \/ \E reference \in ReferenceKeys : AnnotateDiffs(reference)
    \/ \E i \in DOMAIN sessions : \E tab \in SplitChoices : BuildMetrics(i, tab)

Spec == Init /\ [][Next]_vars

----------------------------------------------------------------------------
(* The core entry points as functions: each is called once on arguments    *)
(* drawn from bounded sets that hold unsorted and repeated distances,      *)
(* distances and track lengths with a fourth decimal, and marks that are   *)
(* absent, null, tied, out of order or less than a millisecond apart.      *)

MaxDistances == 3

CoreDistances == {0, QUARTER_M, QUARTER_M + 4, HALF_M, 3 * QUARTER_M}

DistanceLists == UNION {[1..n -> CoreDistances] : n \in 0..MaxDistances}

\* the values a mark may hold; Undefined stands for a key that is absent
MarkTimes ==
    [label \in {"Start time", "62.5", "125", "187.5"} |->
        CASE label = "Start time" -> {Undefined, Null, Num(5 * Unit)}
          [] label = "62.5" -> {Undefined, Null, Num(5 * Unit + 4), Num(6 * Unit + 6)}
          [] label = "125" -> {Null, Num(6 * Unit + 6), Num(7 * Unit + 6)}
          [] label = "187.5" -> {Null, Num(65 * Factor + 6), Num(9 * Unit + 6)}]

CoreMarks ==
    {[label \in {l \in DOMAIN MarkTimes : pick[l] # Undefined} |-> pick[label]]
        : pick \in {[label \in DOMAIN MarkTimes |->
                        CASE label = "Start time" -> start
                          [] label = "62.5" -> first
                          [] label = "125" -> second
                          [] label = "187.5" -> third]
                     : start \in MarkTimes["Start time"], first \in MarkTimes["62.5"],
                       second \in MarkTimes["125"], third \in MarkTimes["187.5"]}}

CoreTotals ==
    {-QUARTER_M, 0, 4, QUARTER_M - 4, QUARTER_M, QUARTER_M + 4, 100 * Unit + 4,
     HALF_M, 3 * QUARTER_M, 200 * Unit, LAP_M * Unit, 300 * Unit, 2 * LAP_M * Unit}

SeriesTotals == {100 * Unit + 4, 3 * QUARTER_M}

LabelInputs ==
    {-QUARTER_M, -15, -5, -4, 0, 4, 5, 14, 15, 100, 1000, 15 * Unit, 15 * Unit + 5,
     QUARTER_M - 6, QUARTER_M - 5, QUARTER_M - 4, QUARTER_M, QUARTER_M + 4,
     QUARTER_M + 5, QUARTER_M + 14, QUARTER_M + 50, QUARTER_M + 100,
     100 * Unit + 4, 3 * QUARTER_M, LAP_M * Unit, 1000 * Unit + 9995}

CoreSessions(lists) ==
    {[distance_total_m |-> total, distances |-> distances, marks_abs |-> marks]
        : total \in SeriesTotals, distances \in lists, marks \in CoreMarks}

\* the sessions charted: stored distances that may be out of order or carry
\* a fourth decimal, with or without Start and the first two marks
ChartSessions(key) ==
    {[videoKey |-> key, distance_total_m |-> 3 * QUARTER_M, distances |-> distances,
      marks_abs |-> marks]
        : distances \in {list \in DistanceLists : Len(list) <= 2 /\ 0 \notin Range(list)},
          marks \in {m \in CoreMarks :
                        /\ DOMAIN m = DOMAIN MarkTimes
                        /\ m["62.5"] \in {Null, Num(6 * Unit + 6)}
                        /\ m["125"] \in {Null, Num(7 * Unit + 6)}
                        /\ m["187.5"] = Null}}

\* one or two sessions as the annotator saves them
SavedSessions ==
    {<<MakeSession(1, first)>> : first \in SessionChoices}
    \cup {<<MakeSession(1, first), MakeSession(2, second)>>
            : first \in SessionChoices, second \in SessionChoices}

CoreInit ==
    /\ sessions = <<>>
    /\ view = "idle"
    /\ mode = "total"
    /\ granularity = "quarter"
    /\ rows = <<>>
    /\ referenceKey = Null
    /\ diffRows = <<>>
    /\ metricsOf = 0
    /\ metricsDistances = <<>>
    /\ metricsRows = <<>>
    /\ input = <<>>
    /\ output = <<>>
    /\ AppIdle

\* the variables of the comparison view, which a single call leaves alone
viewVars == <<sessions, mode, granularity, rows, referenceKey, diffRows,
              metricsOf, metricsDistances, metricsRows, appVars>>

CallDistanceToLabel ==
    /\ view = "idle"
    /\ \E distance \in LabelInputs :
          /\ input' = [distance |-> distance]
          /\ output' = distanceToLabel(distance)
    /\ view' = "distanceToLabel"
    /\ UNCHANGED viewVars

\* distanceToLabel(Number(label)) of the label a call returned
CallDistanceToLabelAgain ==
    /\ view = "distanceToLabel"
    /\ input' = [distance |-> input.distance, label |-> output, number |-> Number(output)]
    /\ output' = distanceToLabel(Number(output))
    /\ view' = "distanceToLabelAgain"
    /\ UNCHANGED viewVars

CallBuildSplitDistances ==
    /\ view = "idle"
    /\ \E totalMeters \in CoreTotals : \E choice \in SplitChoices :
          /\ input' = [totalMeters |-> totalMeters, choice |-> choice]
          /\ output' = buildSplitDistances(totalMeters, choice)
    /\ view' = "buildSplitDistances"
    /\ UNCHANGED viewVars

CallBuildMetrics ==
    /\ view = "idle"
    /\ \E distances \in DistanceLists : \E marks \in CoreMarks :
          /\ input' = [distances |-> distances, marks |-> marks]
          /\ output' = buildMetrics(distances, marks)
    /\ view' = "buildMetrics"
    /\ UNCHANGED viewVars

CallBuildDistanceSeries ==
    /\ view = "idle"
    /\ \E session \in CoreSessions(DistanceLists) :
          /\ input' = [session |-> session]
          /\ output' = buildDistanceSeries(session)
    /\ view' = "buildDistanceSeries"
    /\ UNCHANGED viewVars

CallBuildSplitSeries ==
    /\ view = "idle"
    /\ \E session \in CoreSessions({list \in DistanceLists : Len(list) <= 1}) :
          \E choice \in SplitChoices :
             /\ input' = [session |-> session, choice |-> choice]
             /\ output' = buildSplitSeries(session, choice)
    /\ view' = "buildSplitSeries"
    /\ UNCHANGED viewVars

CallChartData ==
    /\ view = "idle"
    /\ \/ \E first \in ChartSessions("key1") :
             /\ input' = [selectedSessions |-> <<first>>]
             /\ output' = chartData(<<first>>)
       \/ \E first \in ChartSessions("key1") : \E second \in ChartSessions("key2") :
             /\ input' = [selectedSessions |-> <<first, second>>]
             /\ output' = chartData(<<first, second>>)
       \/ /\ input' = [selectedSessions |-> <<>>]
          /\ output' = chartData(<<>>)
    /\ view' = "chartData"
    /\ UNCHANGED viewVars

\* both tables of the same sessions
CallBuildTables ==
    /\ view = "idle"
    /\ \E list \in SavedSessions : \E choice \in SplitChoices :
          /\ input' = [sessions |-> list, granularity |-> choice]
          /\ output' = [total |-> buildTotalTimeRows(list),
                        split |-> buildSplitTimeRows(list, choice)]
    /\ view' = "buildTables"
    /\ UNCHANGED viewVars

CoreNext ==
    \/ CallChartData
    \/ CallBuildTables
    \/ CallDistanceToLabel
    \/ CallDistanceToLabelAgain
    \/ CallBuildSplitDistances
    \/ CallBuildMetrics
    \/ CallBuildDistanceSeries
    \/ CallBuildSplitSeries

CoreSpec == CoreInit /\ [][CoreNext]_vars

----------------------------------------------------------------------------
(* Vocabulary of the properties *)

Thousandth == Unit \div Factor

\* v is x rounded to three decimals, a tie going up
RoundsTo(v, x) ==
    /\ v % Thousandth = 0
    /\ 2 * v - Thousandth <= 2 * x
    /\ 2 * x < 2 * v + Thousandth

\* the mark is recorded: its key is present and its value is a number
Recorded(marks, key) == key \in DOMAIN marks /\ marks[key] # Null

HasStart(session) == Recorded(session.marks_abs, "Start time")

Mark(session, key) == Val(session.marks_abs[key])

TotalTable == view \in {"table", "diff"} /\ mode = "total"
SplitTable == view \in {"table", "diff"} /\ mode = "split"

RowDistances(table) == {table[r].distance : r \in DOMAIN table}

\* the reference session's value in a row, or Null when there is none
ReferenceValue(row) ==
    IF referenceKey # Null /\ Val(referenceKey) \in DOMAIN row.values
    THEN row.values[Val(referenceKey)]
    ELSE Null

----------------------------------------------------------------------------
(* C1: annotateDiffs gives a null delta to every cell whose reference key   *)
(* is null, whose reference value is null or absent, whose own value is     *)
(* null, or whose session is the reference; so the reference's own delta is *)
(* null in every row.                                                       *)
C1_NullDeltas ==
    view = "diff" =>
        /\ Len(diffRows) = Len(rows)
        /\ \A r \in DOMAIN rows :
              /\ diffRows[r].values = rows[r].values
              /\ DOMAIN diffRows[r].deltas = DOMAIN rows[r].values
              /\ \A key \in DOMAIN rows[r].values :
                    (\/ referenceKey = Null
                     \/ ReferenceValue(rows[r]) = Null
                     \/ rows[r].values[key] = Null
                     \/ Str(key) = referenceKey)
                    => diffRows[r].deltas[key] = Null

\* a row where the reference has a value, its own delta is null and another
\* session has a delta
C1_Witness ==
    /\ view = "diff"
    /\ referenceKey # Null
    /\ \E r \in DOMAIN rows :
          /\ ReferenceValue(rows[r]) # Null
          /\ diffRows[r].deltas[Val(referenceKey)] = Null
          /\ \E key \in DOMAIN rows[r].values : diffRows[r].deltas[key] # Null
    /\ \E r \in DOMAIN rows :
          \E key \in DOMAIN rows[r].values :
             /\ ReferenceValue(rows[r]) = Null
             /\ rows[r].values[key] # Null

(* C2: where the reference value and the session value are both present    *)
(* and the session is not the reference, the delta is the session value    *)
(* minus the reference value: positive exactly when the session took       *)
(* longer, negative when it was faster, zero when equal.                   *)
C2_DeltaValue ==
    view = "diff" =>
        \A r \in DOMAIN rows :
           \A key \in DOMAIN rows[r].values :
              LET value == rows[r].values[key]
                  reference == ReferenceValue(rows[r])
                  delta == diffRows[r].deltas[key]
              IN  (reference # Null /\ value # Null /\ Str(key) # referenceKey)
                  => /\ IsNum(delta)
                     /\ Val(delta) = Val(value) - Val(reference)
                     /\ Val(delta) > 0 <=> Val(value) > Val(reference)
                     /\ Val(delta) < 0 <=> Val(value) < Val(reference)
                     /\ Val(delta) = 0 <=> Val(value) = Val(reference)

\* one table with a slower, a faster and an equal cell
C2_Witness ==
    /\ view = "diff"
    /\ \E r \in DOMAIN rows : \E key \in DOMAIN rows[r].values :
          IsNum(diffRows[r].deltas[key]) /\ Val(diffRows[r].deltas[key]) > 0
    /\ \E r \in DOMAIN rows : \E key \in DOMAIN rows[r].values :
          IsNum(diffRows[r].deltas[key]) /\ Val(diffRows[r].deltas[key]) < 0
    /\ \E r \in DOMAIN rows : \E key \in DOMAIN rows[r].values :
          IsNum(diffRows[r].deltas[key]) /\ Val(diffRows[r].deltas[key]) = 0

(* C3 as amended: in buildTotalTimeRows a session without a Start mark has  *)
(* null in every row, the distance-0 row included; a session with one has  *)
(* 0 at distance 0 and, at d > 0, its mark at label(d) minus Start rounded  *)
(* to three decimals when that mark is recorded, and null when it is not.   *)
C3_TotalValues ==
    TotalTable =>
        \A r \in DOMAIN rows : \A i \in DOMAIN sessions :
           LET session == sessions[i]
               d == rows[r].distance
               value == rows[r].values[session.videoKey]
               label == distanceToLabel(d)
           IN  IF ~HasStart(session) THEN value = Null
               ELSE IF d = 0 THEN value = Num(0)
               ELSE IF Recorded(session.marks_abs, label)
                    THEN /\ IsNum(value)
                         /\ RoundsTo(Val(value),
                                     Mark(session, label) - Mark(session, "Start time"))
                    ELSE value = Null

(* C3 as stated: the value at d > 0 is the mark minus Start itself.         *)
C3_Unrounded ==
    TotalTable =>
        \A r \in DOMAIN rows : \A i \in DOMAIN sessions :
           LET session == sessions[i]
               d == rows[r].distance
               value == rows[r].values[session.videoKey]
               label == distanceToLabel(d)
           IN  IF ~HasStart(session) THEN value = Null
               ELSE IF d = 0 THEN value = Num(0)
               ELSE IF Recorded(session.marks_abs, label)
                    THEN value = Num(Mark(session, label) - Mark(session, "Start time"))
                    ELSE value = Null

\* a table with a session that has no Start, and a session with a rounded
\* value, a null for an unrecorded mark and 0 at the start row
C3_Witness ==
    /\ TotalTable
    /\ \E i \in DOMAIN sessions :
          /\ ~HasStart(sessions[i])
          /\ \E key \in DOMAIN sessions[i].marks_abs : sessions[i].marks_abs[key] # Null
          /\ \A r \in DOMAIN rows : rows[r].values[sessions[i].videoKey] = Null
    /\ \E i \in DOMAIN sessions : \E r1, r2, r3 \in DOMAIN rows :
          LET session == sessions[i]
              label == distanceToLabel(rows[r2].distance)
          IN  /\ HasStart(session)
              /\ rows[r1].distance = 0
              /\ rows[r1].values[session.videoKey] = Num(0)
              /\ rows[r2].distance > 0
              /\ Recorded(session.marks_abs, label)
              /\ rows[r2].values[session.videoKey]
                    # Num(Mark(session, label) - Mark(session, "Start time"))
              /\ rows[r3].distance > 0
              /\ rows[r3].values[session.videoKey] = Null

C5_FifteenOnlyIfRecorded ==
    TotalTable =>
        (15 * Unit \in RowDistances(rows)
         => \E i \in DOMAIN sessions :
               \/ Recorded(sessions[i].marks_abs, "15")
               \/ 15 * Unit \in Range(sessions[i].distances))

(* C6: in buildSplitTimeRows the value of a session at row i is its mark at *)
(* row i's distance minus its mark at row i-1's distance (its Start mark    *)
(* for the first row), rounded to three decimals; it is null when either    *)
(* mark is absent or the session has no Start, whatever the earlier rows    *)
(* hold.                                                                    *)
C6_SplitValues ==
    SplitTable =>
        \A r \in DOMAIN rows : \A i \in DOMAIN sessions :
           LET session == sessions[i]
               value == rows[r].values[session.videoKey]
               currentKey == distanceToLabel(rows[r].distance)
               previousKey == IF r = 1 THEN "Start time"
                              ELSE distanceToLabel(rows[r - 1].distance)
           IN  IF /\ HasStart(session)
                  /\ Recorded(session.marks_abs, currentKey)
                  /\ Recorded(session.marks_abs, previousKey)
               THEN /\ IsNum(value)
                    /\ RoundsTo(Val(value),
                                Mark(session, currentKey) - Mark(session, previousKey))
               ELSE value = Null

\* a session with Start whose value is null at one row and a number at a
\* later one, and a value that differs from the unrounded difference
C6_Witness ==
    /\ SplitTable
    /\ \E i \in DOMAIN sessions : \E r1, r2 \in DOMAIN rows :
          /\ HasStart(sessions[i])
          /\ r1 < r2
          /\ rows[r1].values[sessions[i].videoKey] = Null
          /\ rows[r2].values[sessions[i].videoKey] # Null
    /\ \E i \in DOMAIN sessions : \E r \in DOMAIN rows :
          LET session == sessions[i]
              currentKey == distanceToLabel(rows[r].distance)
          IN  /\ r = 1
              /\ HasStart(session)
              /\ Recorded(session.marks_abs, currentKey)
              /\ rows[r].values[session.videoKey]
                    # Num(Mark(session, currentKey) - Mark(session, "Start time"))

\* the largest distance_total_m of the sessions, 0 for none
MaxTotal ==
    IF sessions = <<>> THEN 0
    ELSE CHOOSE m \in {sessions[i].distance_total_m : i \in DOMAIN sessions} :
            \A i \in DOMAIN sessions : sessions[i].distance_total_m <= m

(* C7: the row distances of buildSplitTimeRows(sessions, granularity) are   *)
(* buildSplitDistances(M, granularity) for M the largest distance_total_m   *)
(* of the sessions, whatever their own distances and split choices, and     *)
(* there is no row when there is no session.                                *)
C7_SharedGrid ==
    SplitTable =>
        /\ [r \in DOMAIN rows |-> rows[r].distance]
              = buildSplitDistances(MaxTotal, granularity)
        /\ sessions = <<>> => rows = <<>>

\* the longer track first, a grid of another granularity than either
\* session's, with a checkpoint neither session lists
C7_Witness ==
    /\ SplitTable
    /\ Len(sessions) = 2
    /\ sessions[1].distance_total_m > sessions[2].distance_total_m
    /\ \A i \in DOMAIN sessions : sessions[i].split_choice # granularity
    /\ rows # <<>>
    /\ Last(rows).distance = sessions[1].distance_total_m
    /\ \E i \in DOMAIN sessions :
          Range(sessions[i].distances) \ RowDistances(rows) # {}

(* C8: buildMetrics returns the empty list whenever "Start time" is null or *)
(* absent, whatever the other marks.                                        *)
C8_NoStartNoRows ==
    (view = "metrics" /\ ~HasStart(sessions[metricsOf])) => metricsRows = <<>>

\* a call without Start on marks recorded at two of the distances handed in
C8_Witness ==
    /\ view = "metrics"
    /\ ~HasStart(sessions[metricsOf])
    /\ \E j, k \in DOMAIN metricsDistances :
          /\ j < k
          /\ Recorded(sessions[metricsOf].marks_abs, distanceToLabel(metricsDistances[j]))
          /\ Recorded(sessions[metricsOf].marks_abs, distanceToLabel(metricsDistances[k]))

(* C9: every row emitted by buildMetrics has a strictly positive deltaT     *)
(* field and a strictly positive deltaD field.                               *)
C9_PositiveDeltas ==
    view = "metrics" =>
        \A r \in DOMAIN metricsRows :
           metricsRows[r].deltaT > 0 /\ metricsRows[r].deltaD > 0

(* C10: in every row emitted by buildMetrics velocityKmh is a finite number *)
(* and acceleration is null or a finite number.                             *)
C10_FiniteRates ==
    view = "metrics" =>
        \A r \in DOMAIN metricsRows :
           /\ IsNum(metricsRows[r].velocityKmh)
           /\ metricsRows[r].acceleration = Null \/ IsNum(metricsRows[r].acceleration)

----------------------------------------------------------------------------
(* Vocabulary of the properties of single calls *)

\* the key of the mark at a checkpoint distance, 0 being the start
KeyAt(d) == IF d = 0 THEN "Start time" ELSE distanceToLabel(d)

\* the checkpoints of a distance list: 0 and the positive distances, at
\* three decimals
Checkpoints(distances) ==
    {0} \cup {d \in {toFixed(distances[i], 3) : i \in DOMAIN distances} : d > 0}

\* a and b are checkpoints with none between them
ConsecutivePair(a, b, distances) ==
    /\ a \in Checkpoints(distances)
    /\ b \in Checkpoints(distances)
    /\ a < b
    /\ ~\E c \in Checkpoints(distances) : a < c /\ c < b

\* the pair of checkpoints (a, b) produced a row
HasRow(table, a, b) == \E r \in DOMAIN table : table[r].from = a /\ table[r].to = b

\* a pair of consecutive checkpoints between two rows produced no row
SkippedBetween(table, r, distances) ==
    \E a, b \in Checkpoints(distances) :
       /\ ConsecutivePair(a, b, distances)
       /\ table[r].to <= a
       /\ b <= table[r + 1].from
       /\ ~HasRow(table, a, b)

\* the pair of checkpoints that ends where row r starts produced no row
SkippedBefore(table, r, distances) ==
    \E a \in Checkpoints(distances) :
       ConsecutivePair(a, table[r].from, distances) /\ ~HasRow(table, a, table[r].from)

\* the elapsed time and the velocity of a row's segment, from the marks
RawDeltaT(row, marks) == Val(marks[KeyAt(row.to)]) - Val(marks[KeyAt(row.from)])
RawVelocity(row, marks) == Rat(row.to - row.from, RawDeltaT(row, marks))

(* C11: in the rows returned by buildMetrics every row has from < to, each  *)
(* row ends no later than the next one starts, and a row ends exactly where *)
(* the next one starts if and only if no pair of consecutive checkpoints    *)
(* between them went without a row.                                         *)
C11_Monotone ==
    view = "buildMetrics" =>
        /\ \A r \in DOMAIN output :
              /\ output[r].from < output[r].to
              /\ ConsecutivePair(output[r].from, output[r].to, input.distances)
        /\ \A r \in 1..(Len(output) - 1) :
              /\ output[r].to <= output[r + 1].from
              /\ output[r].to = output[r + 1].from
                    <=> ~SkippedBetween(output, r, input.distances)

\* distances handed in out of order, and rows on both sides of a skipped pair
C11_Witness ==
    /\ view = "buildMetrics"
    /\ \E i \in 1..(Len(input.distances) - 1) : input.distances[i] > input.distances[i + 1]
    /\ \E r \in 1..(Len(output) - 1) : output[r].to < output[r + 1].from

(* C12: every row of buildMetrics after the first has a non-null            *)
(* acceleration equal, at the three decimals a row holds, to its velocity   *)
(* in m/s minus the velocity in m/s of the row emitted before it, divided   *)
(* by its own deltaT, whether or not pairs were skipped between the two.    *)
C12_ChainedAcceleration ==
    view = "buildMetrics" =>
        \A r \in 2..Len(output) :
           /\ IsNum(output[r].acceleration)
           /\ output[r].acceleration =
                 roundRate(RatDiv(RatSub(RawVelocity(output[r], input.marks),
                                         RawVelocity(output[r - 1], input.marks)),
                                  Rat(RawDeltaT(output[r], input.marks), Unit)))

(* C13 as amended: the acceleration of a row of buildMetrics is null for    *)
(* the first row and for no other: a row that follows a skipped pair has a  *)
(* null acceleration only when no row was emitted before it.                *)
C13_NullOnlyFirst ==
    view = "buildMetrics" =>
        \A r \in DOMAIN output : output[r].acceleration = Null <=> r = 1

(* C13 as stated: the acceleration is null for the first row and for every  *)
(* row whose immediately preceding checkpoint pair produced no row.         *)
C13_NullAfterSkip ==
    view = "buildMetrics" =>
        \A r \in DOMAIN output :
           (r = 1 \/ SkippedBefore(output, r, input.distances))
           => output[r].acceleration = Null

\* a second row right after a skipped pair, with an acceleration
C13_Witness ==
    /\ view = "buildMetrics"
    /\ Len(output) = 2
    /\ SkippedBefore(output, 2, input.distances)
    /\ output[1].acceleration = Null
    /\ IsNum(output[2].acceleration)

\* |a - b| <= 1e-6, for a and b in model units
WithinTolerance(a, b) == Abs(a - b) * PerUnit <= 1

\* x and y are strictly within half a thousandth of the same thousandth
SameThousandth(x, y) ==
    \E v \in {toFixed(x, 3) - Thousandth, toFixed(x, 3), toFixed(x, 3) + Thousandth} :
       /\ v % Thousandth = 0
       /\ 2 * Abs(x - v) < Thousandth
       /\ 2 * Abs(y - v) < Thousandth

(* C14 as amended: the last element of every non-empty result of            *)
(* buildSplitDistances(totalMeters, choice) is within 1e-6 of totalMeters,  *)
(* or is totalMeters rounded to three decimals, or is a multiple of the     *)
(* step that is <= totalMeters.                                             *)
C14_LastElement ==
    (view = "buildSplitDistances" /\ output # <<>>) =>
        LET step == SPLIT_STEPS[input.choice]
        IN  \/ WithinTolerance(Last(output), input.totalMeters)
            \/ RoundsTo(Last(output), input.totalMeters)
            \/ Last(output) % step = 0 /\ Last(output) <= input.totalMeters

(* C14 as stated: the last element is within 1e-6 of totalMeters or is a    *)
(* multiple of the step that is <= totalMeters.                             *)
C14_LastAsStated ==
    (view = "buildSplitDistances" /\ output # <<>>) =>
        LET step == SPLIT_STEPS[input.choice]
        IN  \/ WithinTolerance(Last(output), input.totalMeters)
            \/ Last(output) % step = 0 /\ Last(output) <= input.totalMeters

\* a track that is no multiple of the step, closed by its own length
C14_Witness ==
    /\ view = "buildSplitDistances"
    /\ Len(output) >= 2
    /\ input.totalMeters % SPLIT_STEPS[input.choice] # 0
    /\ Last(output) = input.totalMeters

(* C15: buildSplitDistances returns a strictly increasing list in which no  *)
(* two elements have the same canonical label, and every element except     *)
(* possibly the last is k times the step, for k = 1, 2, ... in order.       *)
C15_IncreasingMultiples ==
    view = "buildSplitDistances" =>
        LET step == SPLIT_STEPS[input.choice]
        IN  /\ \A k \in 1..(Len(output) - 1) :
                  /\ output[k] < output[k + 1]
                  /\ output[k] = k * step
            /\ \A j, k \in DOMAIN output :
                  distanceToLabel(output[j]) = distanceToLabel(output[k]) => j = k

\* a track a little longer than one step: the length rounds to the step
C15_Witness ==
    /\ view = "buildSplitDistances"
    /\ input.totalMeters > SPLIT_STEPS[input.choice]
    /\ toFixed(input.totalMeters, 3) = SPLIT_STEPS[input.choice]
    /\ output = <<SPLIT_STEPS[input.choice]>>

(* C16: buildSplitDistances returns the empty list when totalMeters <= 0    *)
(* and a non-empty list when totalMeters > 0, for every choice.             *)
C16_EmptyOnlyForNoTrack ==
    view = "buildSplitDistances" =>
        (input.totalMeters <= 0 <=> output = <<>>)

\* a track shorter than the step still has its one checkpoint
C16_Witness ==
    /\ view = "buildSplitDistances"
    /\ input.totalMeters > 0
    /\ input.totalMeters * PerUnit + 1 < SPLIT_STEPS[input.choice] * PerUnit
    /\ Len(output) = 1

(* C17: distanceToLabel(Number(distanceToLabel(x))) = distanceToLabel(x)    *)
(* for every distance x, and two distances that round to the same           *)
(* thousandth have the same label.                                          *)
C17_LabelIdempotent ==
    /\ view = "distanceToLabelAgain" => output = input.label
    /\ view = "distanceToLabel" =>
          \A y \in LabelInputs :
             SameThousandth(input.distance, y) => distanceToLabel(y) = output

\* a distance with a fourth decimal, whose label reads back as another number
C17_Witness ==
    /\ view = "distanceToLabelAgain"
    /\ input.distance # input.number
    /\ input.distance % Thousandth # 0
    /\ input.label = "62.5"
    /\ output = "62.5"

\* the positions of a distance list whose mark is recorded, in order
RecordedAt(distances, marks) ==
    SortedFromSet({i \in DOMAIN distances : Recorded(marks, distanceToLabel(distances[i]))})

(* C18 as amended: buildDistanceSeries(session) is empty when the session   *)
(* has no Start mark; otherwise it holds, in the order of session.distances *)
(* and without re-sorting, one entry for each distance of session.distances *)
(* whose canonical-label mark is present, made of that distance and the     *)
(* mark minus Start rounded to three decimals, and no entry for the others. *)
C18_DistanceSeries ==
    view = "buildDistanceSeries" =>
        LET session == input.session
            kept == RecordedAt(session.distances, session.marks_abs)
        IN  IF ~HasStart(session) THEN output = <<>>
            ELSE /\ Len(output) = Len(kept)
                 /\ \A k \in DOMAIN kept :
                       LET distance == session.distances[kept[k]]
                       IN  /\ output[k].distance = distance
                           /\ RoundsTo(output[k].time,
                                       Mark(session, distanceToLabel(distance))
                                       - Mark(session, "Start time"))

(* C18 as stated: each entry is the distance and the mark minus Start.      *)
C18_Unrounded ==
    view = "buildDistanceSeries" =>
        LET session == input.session
            kept == RecordedAt(session.distances, session.marks_abs)
        IN  IF ~HasStart(session) THEN output = <<>>
            ELSE /\ Len(output) = Len(kept)
                 /\ \A k \in DOMAIN kept :
                       LET distance == session.distances[kept[k]]
                       IN  /\ output[k].distance = distance
                           /\ output[k].time = Mark(session, distanceToLabel(distance))
                                                - Mark(session, "Start time")

\* distances stored out of order, one of them without a mark
C18_Witness ==
    /\ view = "buildDistanceSeries"
    /\ Len(output) = 2
    /\ output[1].distance > output[2].distance
    /\ Len(input.session.distances) = 3

(* C19: buildSplitSeries(session, granularity) is empty when Start is       *)
(* missing; otherwise it has an entry exactly for the distances of          *)
(* buildSplitDistances(session.distance_total_m, granularity) whose mark is *)
(* recorded, whatever session.distances holds, and none for a grid distance *)
(* without a mark.                                                          *)
C19_SplitSeries ==
    view = "buildSplitSeries" =>
        LET session == input.session
            grid == buildSplitDistances(session.distance_total_m, input.choice)
            kept == RecordedAt(grid, session.marks_abs)
        IN  IF ~HasStart(session) THEN output = <<>>
            ELSE /\ Len(output) = Len(kept)
                 /\ \A k \in DOMAIN kept :
                       /\ output[k].distance = grid[kept[k]]
                       /\ RoundsTo(output[k].time,
                                   Mark(session, distanceToLabel(grid[kept[k]]))
                                   - Mark(session, "Start time"))

\* a grid with an unmarked distance and with marked distances the session
\* does not store
C19_Witness ==
    /\ view = "buildSplitSeries"
    /\ HasStart(input.session)
    /\ Len(output) >= 1
    /\ Len(output) < Len(buildSplitDistances(input.session.distance_total_m, input.choice))
    /\ \E k \in DOMAIN output : output[k].distance \notin Range(input.session.distances)
    /\ \E i \in DOMAIN input.session.distances :
          /\ Recorded(input.session.marks_abs, distanceToLabel(input.session.distances[i]))
          /\ \A k \in DOMAIN output : output[k].distance # input.session.distances[i]

\* the points of the series of the i-th selected session
SeriesOf(i) == buildDistanceSeries(input.selectedSessions[i])

\* the distances of the points of every selected session's series
SeriesDistances ==
    UNION {{SeriesOf(i)[k].distance : k \in DOMAIN SeriesOf(i)}
           : i \in DOMAIN input.selectedSessions}

(* C21 as amended: chartData has exactly one row per distinct distance,     *)
(* rounded to three decimals, of the points of the selected sessions'       *)
(* buildDistanceSeries outputs, in ascending order; in each row a session's *)
(* value is its series time at the points that round to the row's distance, *)
(* and null when it has no such point.                                      *)
C21_ChartRows ==
    view = "chartData" =>
        /\ {output[r].distance : r \in DOMAIN output}
              = {toFixed(d, 3) : d \in SeriesDistances}
        /\ \A r \in 1..(Len(output) - 1) : output[r].distance < output[r + 1].distance
        /\ \A r \in DOMAIN output : \A i \in DOMAIN input.selectedSessions :
              LET value == output[r].values[input.selectedSessions[i].videoKey]
                  here == {k \in DOMAIN SeriesOf(i) :
                              toFixed(SeriesOf(i)[k].distance, 3) = output[r].distance}
              IN  IF here = {} THEN value = Null
                  ELSE \A k \in here : value = Num(SeriesOf(i)[k].time)

(* C21 as stated: one row per distinct distance of the series outputs, and  *)
(* a session's value is its series time at that distance, null without one. *)
C21_RowsAsStated ==
    view = "chartData" =>
        /\ {output[r].distance : r \in DOMAIN output} = SeriesDistances
        /\ \A r \in 1..(Len(output) - 1) : output[r].distance < output[r + 1].distance
        /\ \A r \in DOMAIN output : \A i \in DOMAIN input.selectedSessions :
              LET value == output[r].values[input.selectedSessions[i].videoKey]
                  here == {k \in DOMAIN SeriesOf(i) :
                              SeriesOf(i)[k].distance = output[r].distance}
              IN  IF here = {} THEN value = Null
                  ELSE \A k \in here : value = Num(SeriesOf(i)[k].time)

\* two sessions, each with a point the other lacks, stored out of order
C21_Witness ==
    /\ view = "chartData"
    /\ Len(input.selectedSessions) = 2
    /\ Len(output) = 2
    /\ output[1].values["key1"] = Null /\ output[1].values["key2"] # Null
    /\ output[2].values["key1"] # Null /\ output[2].values["key2"] = Null
    /\ Len(input.selectedSessions[1].distances) = 2
    /\ input.selectedSessions[1].distances[1] > input.selectedSessions[1].distances[2]

\* the positive distances of a list at three decimals, ascending, once each
Canonical(distances) == SortedFromSet(Checkpoints(distances) \ {0})

(* C23: for given marks, buildMetrics returns for a distance list the rows  *)
(* it returns for the ascending list of its distinct positive distances at  *)
(* three decimals: order, repetition and entries <= 0 change nothing.       *)
C23_SetOfDistances ==
    view = "buildMetrics" =>
        output = buildMetrics(Canonical(input.distances), input.marks)

\* a list out of order, with a repeated checkpoint and an entry of 0, that
\* yields rows
C23_Witness ==
    /\ view = "buildMetrics"
    /\ input.distances # Canonical(input.distances)
    /\ Len(input.distances) > Len(Canonical(input.distances))
    /\ \E i \in DOMAIN input.distances : input.distances[i] = 0
    /\ \E i \in 1..(Len(input.distances) - 1) : input.distances[i] > input.distances[i + 1]
    /\ output # <<>>

\* the sum of a session's values in rows 1..r of a table
RECURSIVE SumOfValues(_, _, _)
SumOfValues(table, key, r) ==
    IF r = 0 THEN 0 ELSE Val(table[r].values[key]) + SumOfValues(table, key, r - 1)

\* Start and the marks at the distances of rows 1..r are recorded, each a
\* multiple of 0.001 s
MarkedUpTo(session, table, r) ==
    /\ HasStart(session)
    /\ Mark(session, "Start time") % Thousandth = 0
    /\ \A k \in 1..r :
          /\ Recorded(session.marks_abs, distanceToLabel(table[k].distance))
          /\ Mark(session, distanceToLabel(table[k].distance)) % Thousandth = 0

----------------------------------------------------------------------------
(* The annotator's draft: src/src/components/annotate/AnnotateView.tsx.     *)
(* Each handler is the function it hands to updateDraft, applied to the     *)
(* draft; an action applies it to the draft of the view.                    *)

DEFAULT_DISTANCE == 250
BASE_LABELS == <<"Start time", "Reaction time", "15">>

\* getSession(videoKey) of a key the store does not hold
NoSaved == [saved |-> Undefined]

\* the draft loadFile builds for a file whose stored session is saved
\* (NoSaved when the store has none) and whose name carries parsedDistance
loadFile(saved, parsedDistance) ==
    LET splitChoice == IF saved = NoSaved THEN "quarter" ELSE saved.split_choice
        totalDistanceRaw ==
            IF saved # NoSaved THEN saved.distance_total_m
            ELSE IF parsedDistance # Null THEN Val(parsedDistance)
            ELSE DEFAULT_DISTANCE * Unit
        distanceTotal == IF totalDistanceRaw > 0 THEN totalDistanceRaw
                         ELSE DEFAULT_DISTANCE * Unit
        distances == sanitizeDistances(
                        IF saved = NoSaved
                        THEN buildSplitDistances(distanceTotal, splitChoice)
                        ELSE saved.distances)
    IN  [videoKey |-> "key1",
         distance_total_m |-> distanceTotal,
         split_choice |-> splitChoice,
         distances |-> distances,
         marks_abs |-> ensureMarks(distances,
                                   IF saved = NoSaved THEN NoMarks ELSE saved.marks_abs)]

handleUpdateMark(prev, label, absoluteSeconds) ==
    [prev EXCEPT !.marks_abs =
        [key \in DOMAIN prev.marks_abs \cup {label} |->
            IF key = label THEN absoluteSeconds ELSE prev.marks_abs[key]]]

handleApplySplits(prev) ==
    LET newDistances == sanitizeDistances(
                           buildSplitDistances(prev.distance_total_m, prev.split_choice))
    IN  [prev EXCEPT !.distances = newDistances,
                     !.marks_abs = ensureMarks(newDistances, prev.marks_abs)]

handleSplitChoiceChange(prev, choice) == [prev EXCEPT !.split_choice = choice]

handleDistanceTotalChange(prev, value) ==
    IF value = Null \/ Val(value) <= 0 THEN prev
    ELSE [prev EXCEPT !.distance_total_m = Val(value)]

\* index counts from 0, as in the code
handleDistanceChange(prev, index, value) ==
    LET at == index + 1
        nextDistances ==
            IF value = Null \/ Val(value) <= 0
            THEN SubSeq(prev.distances, 1, at - 1)
                 \o SubSeq(prev.distances, at + 1, Len(prev.distances))
            ELSE [prev.distances EXCEPT ![at] = Val(value)]
        sanitized == sanitizeDistances(nextDistances)
    IN  [prev EXCEPT !.distances = sanitized,
                     !.marks_abs = ensureMarks(sanitized, prev.marks_abs)]

handleDistanceRemove(prev, index) ==
    LET at == index + 1
        nextDistances == SubSeq(prev.distances, 1, at - 1)
                         \o SubSeq(prev.distances, at + 1, Len(prev.distances))
        sanitized == sanitizeDistances(nextDistances)
    IN  [prev EXCEPT !.distances = sanitized,
                     !.marks_abs = ensureMarks(sanitized, prev.marks_abs)]

\* while (seen.has(distanceToLabel(candidate))) candidate += 5
RECURSIVE AddCandidate(_, _)
AddCandidate(candidate, seen) ==
    IF distanceToLabel(candidate) \in seen
    THEN AddCandidate(candidate + 5 * Unit, seen)
    ELSE candidate

handleDistanceAdd(prev) ==
    LET current == prev.distances
        last == IF current = <<>> THEN 0 ELSE Last(current)
        seen == {distanceToLabel(current[i]) : i \in DOMAIN current}
        candidate == AddCandidate(last + 10 * Unit, seen)
        sanitized == sanitizeDistances(Append(current, candidate))
    IN  [prev EXCEPT !.distances = sanitized,
                     !.marks_abs = ensureMarks(sanitized, prev.marks_abs)]

\* Array.from(new Set(labels)): the first occurrence of each label, in order
RECURSIVE Distinct(_, _)
Distinct(labels, seen) ==
    IF labels = <<>> THEN <<>>
    ELSE IF Head(labels) \in seen THEN Distinct(Tail(labels), seen)
    ELSE <<Head(labels)>> \o Distinct(Tail(labels), seen \cup {Head(labels)})

timestampLabels_Descending(current) ==
    LET distances == IF current = NoDraft THEN <<>> ELSE current.distances
        labels == [i \in DOMAIN distances |-> distanceToLabel(distances[i])]
    IN  BASE_LABELS \o SortSeq(Distinct(labels, {}),
                               LAMBDA a, b : Number(a) > Number(b))

timestampLabels(current) ==
    LET distances == IF current = NoDraft THEN <<>> ELSE current.distances
        labels == [i \in DOMAIN distances |-> distanceToLabel(distances[i])]
    IN  BASE_LABELS \o SortSeq(Distinct(labels, {}),
                               LAMBDA a, b : Number(a) < Number(b))

\* the first label whose mark is null or undefined, Null when there is none
nextLabel(current) ==
    IF current = NoDraft THEN Null
    ELSE LET labels == timestampLabels(current)
             open == {i \in DOMAIN labels : IsNullish(Get(current.marks_abs, labels[i]))}
         IN  IF open = {} THEN Null ELSE Str(labels[Min(open)])

\* the draft after handleCaptureNext with the player at currentTime
\* (Undefined: no player)
handleCaptureNext(current, currentTime) ==
    LET next == nextLabel(current)
    IN  IF current = NoDraft \/ next = Null \/ currentTime = Undefined THEN current
        ELSE IF next = Str("Start time")
        THEN handleUpdateMark(current, "Start time", currentTime)
        ELSE IF IsNullish(Get(current.marks_abs, "Start time")) THEN current
        ELSE handleUpdateMark(current, next[2], currentTime)

----------------------------------------------------------------------------
(* The editing of one draft: a file is loaded, then the user edits the      *)
(* distance list and captures marks.                                        *)

MaxEdits == 3

\* sessions the store may hold for the file: one the annotator saved, one
\* that came in through an import
SavedDrafts ==
    {[videoKey |-> "key1", distance_total_m |-> HALF_M, split_choice |-> "half",
      distances |-> <<HALF_M>>,
      marks_abs |-> [label \in {"Start time", "Reaction time", "15", "125"} |->
                        CASE label = "Start time" -> Num(5 * Unit)
                          [] label = "125" -> Num(7 * Unit + 6)
                          [] OTHER -> Null]],
     [videoKey |-> "key1", distance_total_m |-> LAP_M * Unit, split_choice |-> "quarter",
      distances |-> <<HALF_M, QUARTER_M + 4, 15 * Unit>>,
      marks_abs |-> [label \in {"Start time"} |-> Num(5 * Unit)]]}

\* what parseVideoFilename reads for the distance of the file name
ParsedDistances == {Null, Num(HALF_M)}

\* what the user types into a distance field: any positive number
TypedDistances == {Num(4), Num(5 * Unit), Num(15 * Unit), Num(100 * Unit + 4)}

\* where the player stands when a mark is captured
\* (Undefined: the player is not mounted)
PlayerTimes == {Undefined, Num(5 * Unit), Num(6 * Unit + 6)}

DraftInit ==
    /\ sessions = <<>>
    /\ view = "idle"
    /\ mode = "total"
    /\ granularity = "quarter"
    /\ rows = <<>>
    /\ referenceKey = Null
    /\ diffRows = <<>>
    /\ metricsOf = 0
    /\ metricsDistances = <<>>
    /\ metricsRows = <<>>
    /\ input = <<>>
    /\ output = <<>>
    /\ AppIdle

\* what an edit of the draft leaves alone
draftFrame == <<sessions, mode, granularity, rows, referenceKey, diffRows, metricsOf,
                metricsDistances, metricsRows, output, store, uploads,
                requests, phone>>

LoadFile ==
    /\ draft = NoDraft
    /\ \E saved \in {NoSaved} \cup SavedDrafts : \E parsedDistance \in ParsedDistances :
          draft' = loadFile(saved, parsedDistance)
    /\ view' = "loadFile"
    /\ edits' = 0
    /\ input' = <<>>
    /\ UNCHANGED draftFrame

HandleApplySplits ==
    /\ draft # NoDraft
    /\ edits < MaxEdits
    /\ draft' = handleApplySplits(draft)
    /\ view' = "handleApplySplits"
    /\ edits' = edits + 1
    /\ input' = <<>>
    /\ UNCHANGED draftFrame

HandleSplitChoiceChange ==
    /\ draft # NoDraft
    /\ edits < MaxEdits
    /\ \E choice \in SplitChoices : draft' = handleSplitChoiceChange(draft, choice)
    /\ view' = "handleSplitChoiceChange"
    /\ edits' = edits + 1
    /\ input' = <<>>
    /\ UNCHANGED draftFrame

HandleDistanceChange ==
    /\ draft # NoDraft
    /\ edits < MaxEdits
    /\ \E index \in 0..(Len(draft.distances) - 1) : \E value \in TypedDistances :
          draft' = handleDistanceChange(draft, index, value)
    /\ view' = "handleDistanceChange"
    /\ edits' = edits + 1
    /\ input' = <<>>
    /\ UNCHANGED draftFrame

HandleDistanceRemove ==
    /\ draft # NoDraft
    /\ edits < MaxEdits
    /\ \E index \in 0..(Len(draft.distances) - 1) :
          draft' = handleDistanceRemove(draft, index)
    /\ view' = "handleDistanceRemove"
    /\ edits' = edits + 1
    /\ input' = <<>>
    /\ UNCHANGED draftFrame

HandleDistanceAdd ==
    /\ draft # NoDraft
    /\ edits < MaxEdits
    /\ draft' = handleDistanceAdd(draft)
    /\ view' = "handleDistanceAdd"
    /\ edits' = edits + 1
    /\ input' = <<>>
    /\ UNCHANGED draftFrame

\* the timestamp grid clears a mark
HandleUpdateMark ==
    /\ draft # NoDraft
    /\ edits < MaxEdits
    /\ \E label \in {"Start time", "15"} :
          draft' = handleUpdateMark(draft, label, Null)
    /\ view' = "handleUpdateMark"
    /\ edits' = edits + 1
    /\ input' = <<>>
    /\ UNCHANGED draftFrame

HandleCaptureNext ==
    /\ edits < MaxEdits
    /\ \E currentTime \in PlayerTimes :
          /\ input' = [currentTime |-> currentTime]
          /\ draft' = handleCaptureNext(draft, currentTime)
    /\ view' = "handleCaptureNext"
    /\ edits' = edits + 1
    /\ UNCHANGED draftFrame

DraftNext ==
    \/ LoadFile
    \/ HandleApplySplits
    \/ HandleSplitChoiceChange
    \/ HandleDistanceChange
    \/ HandleDistanceRemove
    \/ HandleDistanceAdd
    \/ HandleUpdateMark
    \/ HandleCaptureNext

DraftSpec == DraftInit /\ [][DraftNext]_vars

----------------------------------------------------------------------------
(* The session store: src/src/store/sessions.ts.  The object store is a     *)
(* function from videoKey to the record stored under it.  A JSON text is    *)
(* what JSON.parse makes of it: a failure, or the parsed value.             *)

\* JSON.parse(json) throws
InvalidJson == [parse |-> "throws"]
\* JSON.parse(json) returns value
Parsed(value) == [parse |-> "returns", value |-> value]

Array(list) == <<"array", list>>
Object(fields) == <<"object", fields>>

\* !value
Falsy(value) == value \in {Null, Undefined, Num(0), Str("")}
\* typeof value
TypeOf(value) ==
    CASE value[1] \in {"null", "array", "object"} -> "object"
      [] value[1] = "number" -> "number"
      [] value[1] = "string" -> "string"
      [] OTHER -> "undefined"
\* key in value, of a value whose typeof is "object"
In(key, value) == value[1] = "object" /\ key \in DOMAIN value[2]

\* store.put(session) that leaves a stored record in place
Put_KeepStored(db, session) ==
    [key \in DOMAIN db \cup {session.videoKey} |->
        IF key \in DOMAIN db THEN db[key] ELSE session]

\* store.put(session) of a record that has the key path
Put(db, session) ==
    [key \in DOMAIN db \cup {session.videoKey} |->
        IF key = session.videoKey THEN session ELSE db[key]]

threw(db, message) == [store |-> db, error |-> Str(message), returned |-> Undefined]

\* for (const session of list) await tx.store.put(session); put throws a
\* DataError for a record without the key path, and the records put before
\* it stay in the transaction
RECURSIVE PutAll(_, _, _)
PutAll(db, list, i) ==
    IF i > Len(list)
    THEN [store |-> db, error |-> Null, returned |-> Num(Len(list) * Unit)]
    ELSE IF "videoKey" \notin DOMAIN list[i] THEN threw(db, "DataError")
    ELSE PutAll(Put(db, list[i]), list, i + 1)

\* the store after importSessions(json), with what the call threw or returned
importSessions(db, json) ==
    IF json.parse = "throws" THEN threw(db, "Invalid JSON file")
    ELSE LET parsed == json.value
         IN  IF Falsy(parsed) \/ TypeOf(parsed) # "object" \/ ~In("sessions", parsed)
             THEN threw(db, "Unexpected sessions file structure")
             ELSE LET list == parsed[2]["sessions"]
                  IN  IF list[1] # "array"
                      THEN threw(db, "Sessions payload is not an array")
                      ELSE PutAll(db, list[2], 1)

----------------------------------------------------------------------------
(* Imports into a store *)

MaxImported == 2
MaxImports == 2

\* the records of an import file: sessions, and a record without videoKey
ImportedRecords ==
    {[videoKey |-> "key1", athlete |-> "A"],
     [videoKey |-> "key1", athlete |-> "B"],
     [videoKey |-> "key2", athlete |-> "B"],
     [athlete |-> "A"]}

ImportedLists ==
    UNION {[1..n -> ImportedRecords] : n \in 0..MaxImported}

JsonFiles ==
    {InvalidJson, Parsed(Null), Parsed(Num(Unit)), Parsed(Array(<<>>)),
     Parsed(Object([key \in {"version"} |-> Num(Unit)])),
     Parsed(Object([key \in {"version", "sessions"} |-> Null])),
     Parsed(Object([key \in {"sessions"} |-> Object(NoMarks)]))}
    \cup {Parsed(Object([key \in {"version", "sessions"} |->
                           IF key = "sessions" THEN Array(list) ELSE Num(Unit)]))
            : list \in ImportedLists}

\* what the store holds before the imports
StoredBefore ==
    {NoMarks,
     [key \in {"key1"} |-> [videoKey |-> "key1", athlete |-> "A"]],
     [key \in {"key2", "key3"} |-> [videoKey |-> key, athlete |-> "C"]]}

StoreInit ==
    /\ sessions = <<>>
    /\ view = "idle"
    /\ mode = "total"
    /\ granularity = "quarter"
    /\ rows = <<>>
    /\ referenceKey = Null
    /\ diffRows = <<>>
    /\ metricsOf = 0
    /\ metricsDistances = <<>>
    /\ metricsRows = <<>>
    /\ input = <<>>
    /\ output = <<>>
    /\ draft = NoDraft
    /\ edits = 0
    /\ store \in StoredBefore
    /\ uploads = <<>>
    /\ requests = [posted |-> {}, consumed |-> {}, deleted |-> {}]
    /\ phone = NoPhone

ImportSessions ==
    /\ edits < MaxImports
    /\ \E json \in JsonFiles :
          LET call == importSessions(store, json)
          IN  /\ input' = [json |-> json, stored |-> store]
              /\ store' = call.store
              /\ output' = [error |-> call.error, returned |-> call.returned]
    /\ view' = "importSessions"
    /\ edits' = edits + 1
    /\ UNCHANGED <<sessions, mode, granularity, rows, referenceKey, diffRows, metricsOf,
                   metricsDistances, metricsRows, draft, uploads, requests, phone>>

StoreNext == ImportSessions

StoreSpec == StoreInit /\ [][StoreNext]_vars

----------------------------------------------------------------------------
(* The upload relay: src/server/phone-upload-server.cjs.  uploads is the    *)
(* list uploads.json holds; every handler reads it, answers, and writes it  *)
(* back before the next request is served.                                  *)

\* the field names upload.any() files are kept for
AllowedFields == {"video", "videos", "video[]", "file", "files"}

\* what a handler leaves: the list written and the response sent
Response(list, status, body) == [uploads |-> list, status |-> status, body |-> body]

\* POST /api/uploads; ids are the identifiers nanoid hands out, one per file
PostUploads(list, sessionId, fields, ids) ==
    LET files == SelectSeq(fields, LAMBDA field : field \in AllowedFields)
        created == [i \in DOMAIN files |->
                       [id |-> ids[i], sessionId |-> sessionId[2], consumed |-> FALSE]]
    IN  IF sessionId \in {Undefined, Str("")}
        THEN Response(list, 400, <<>>)
        ELSE IF Len(files) = 0 THEN Response(list, 400, <<>>)
        ELSE Response(list \o created, 200, created)

\* GET /api/uploads/:sessionId that lists the consumed records too
GetUploads_Consumed(list, sessionId) ==
    Response(list, 200, SelectSeq(list, LAMBDA item : item.sessionId = sessionId))

\* GET /api/uploads/:sessionId
GetUploads(list, sessionId) ==
    Response(list, 200,
             SelectSeq(list, LAMBDA item : item.sessionId = sessionId /\ ~item.consumed))

\* POST /api/uploads/:id/consume
ConsumeUpload(list, id) ==
    IF \A i \in DOMAIN list : list[i].id # id
    THEN Response(list, 404, <<>>)
    ELSE LET target == Min({i \in DOMAIN list : list[i].id = id})
             written == [list EXCEPT ![target].consumed = TRUE]
         IN  Response(written, 200, <<written[target]>>)

\* DELETE /api/uploads/:id
DeleteUpload(list, id) ==
    LET next == SelectSeq(list, LAMBDA item : item.id # id)
    IN  IF Len(next) = Len(list) THEN Response(list, 404, <<>>)
        ELSE Response(next, 200, <<>>)

----------------------------------------------------------------------------
(* Requests to the relay *)

MaxUploads == 2
MaxRequests == 3

SessionIds == {"s1", "s2"}
\* the identifiers nanoid(12) returns, in the order it returns them
UploadIds == [i \in 1..(MaxUploads + 1) |-> "u" \o ToString(i)]
\* the field names of the files of one POST
PostedFields == {<<>>, <<"video">>, <<"thumbnail">>, <<"video", "file">>}

RelayInit ==
    /\ sessions = <<>>
    /\ view = "idle"
    /\ mode = "total"
    /\ granularity = "quarter"
    /\ rows = <<>>
    /\ referenceKey = Null
    /\ diffRows = <<>>
    /\ metricsOf = 0
    /\ metricsDistances = <<>>
    /\ metricsRows = <<>>
    /\ input = <<>>
    /\ output = <<>>
    /\ AppIdle

\* what a request to the relay leaves alone
relayFrame == <<sessions, mode, granularity, rows, referenceKey, diffRows, metricsOf,
                metricsDistances, metricsRows, draft, store, phone>>

\* the identifiers of the list
IdsOf(list) == {list[i].id : i \in DOMAIN list}

Post ==
    /\ edits < MaxRequests
    /\ \E sessionId \in {Undefined, Str("")} \cup {Str(id) : id \in SessionIds} :
       \E fields \in PostedFields :
          LET made == Cardinality(requests.posted)
              ids == [i \in 1..Len(fields) |-> UploadIds[made + i]]
              answer == PostUploads(uploads, sessionId, fields, ids)
          IN  /\ made + Len(fields) <= MaxUploads
              /\ input' = [sessionId |-> sessionId, fields |-> fields, uploads |-> uploads]
              /\ uploads' = answer.uploads
              /\ output' = [status |-> answer.status, body |-> answer.body]
              /\ requests' = [requests EXCEPT
                                 !.posted = @ \cup {[id |-> answer.body[i].id,
                                                     sessionId |-> answer.body[i].sessionId]
                                                    : i \in DOMAIN answer.body}]
    /\ view' = "post"
    /\ edits' = edits + 1
    /\ UNCHANGED relayFrame

List ==
    /\ edits < MaxRequests
    /\ \E sessionId \in SessionIds :
          LET answer == GetUploads(uploads, sessionId)
          IN  /\ input' = [sessionId |-> sessionId, uploads |-> uploads]
              /\ uploads' = answer.uploads
              /\ output' = [status |-> answer.status, body |-> answer.body]
    /\ view' = "list"
    /\ edits' = edits + 1
    /\ UNCHANGED <<relayFrame, requests>>

Consume ==
    /\ edits < MaxRequests
    /\ \E id \in Range(UploadIds) :
          LET answer == ConsumeUpload(uploads, id)
          IN  /\ input' = [id |-> id, uploads |-> uploads]
              /\ uploads' = answer.uploads
              /\ output' = [status |-> answer.status, body |-> answer.body]
              /\ requests' = IF answer.status = 200
                             THEN [requests EXCEPT !.consumed = @ \cup {id}]
                             ELSE requests
    /\ view' = "consume"
    /\ edits' = edits + 1
    /\ UNCHANGED relayFrame

Delete ==
    /\ edits < MaxRequests
    /\ \E id \in Range(UploadIds) :
          LET answer == DeleteUpload(uploads, id)
          IN  /\ input' = [id |-> id, uploads |-> uploads]
              /\ uploads' = answer.uploads
              /\ output' = [status |-> answer.status, body |-> answer.body]
              /\ requests' = IF answer.status = 200
                             THEN [requests EXCEPT !.deleted = @ \cup {id}]
                             ELSE requests
    /\ view' = "delete"
    /\ edits' = edits + 1
    /\ UNCHANGED relayFrame

RelayNext ==
    \/ Post
    \/ List
    \/ Consume
    \/ Delete

RelaySpec == RelayInit /\ [][RelayNext]_vars

----------------------------------------------------------------------------
(* Phone-upload polling: the effect of AnnotateView.tsx that polls the      *)
(* relay.  phone holds the session id, the processedPhoneUploads ref, the   *)
(* effect runs (each with its own cancelled flag and interval) and the      *)
(* checkForUploads callbacks in flight, each at one of its awaits.          *)

\* uploads.find(item => item?.id && !processed.has(item.id)), Null for none
FindNext(payload, processed) ==
    LET fresh == {i \in DOMAIN payload : payload[i].id \notin processed}
    IN  IF fresh = {} THEN Null ELSE Str(payload[Min(fresh)].id)

\* processedPhoneUploads after a callback found nextUpload, were the id
\* not added to it
Processed_NotAdded(processed, nextUpload) == processed

\* processedPhoneUploads.current.add(nextUpload.id)
Processed(processed, nextUpload) == processed \cup {nextUpload[2]}

\* the callbacks without the one at position c, which has returned
Returned(callbacks, c) ==
    SubSeq(callbacks, 1, c - 1) \o SubSeq(callbacks, c + 1, Len(callbacks))

\* a checkForUploads() of effect run effect, its list request sent
Started(effect, sessionId) ==
    [effect |-> effect, sessionId |-> sessionId, at |-> "list", payload |-> <<>>,
     upload |-> Null]

\* the cleanup of the running effect: cancelled = true, clearInterval
Cleanup(polling) ==
    [polling EXCEPT !.cancelled = IF polling.timer = 0 THEN @ ELSE @ \cup {polling.timer},
                    !.timer = 0]

\* a run of the effect for sessionId: the cleanup of the previous run, then
\* checkForUploads() and setInterval
Rerun(polling, sessionId) ==
    LET cleaned == Cleanup(polling)
    IN  IF sessionId = Null THEN [cleaned EXCEPT !.sessionId = Null, !.stale = FALSE]
        ELSE [cleaned EXCEPT !.sessionId = sessionId,
                             !.stale = FALSE,
                             !.runs = @ + 1,
                             !.timer = polling.runs + 1,
                             !.callbacks = Append(@, Started(polling.runs + 1, sessionId[2]))]

----------------------------------------------------------------------------
(* Polling sessions against the relay *)

MaxCallbacks == 3
MaxPhoneUploads == 2

\* the session ids PhoneUploadDialog draws, in the order it draws them
DialogSessions == <<"s1", "s2">>

PollInit ==
    /\ sessions = <<>>
    /\ view = "idle"
    /\ mode = "total"
    /\ granularity = "quarter"
    /\ rows = <<>>
    /\ referenceKey = Null
    /\ diffRows = <<>>
    /\ metricsOf = 0
    /\ metricsDistances = <<>>
    /\ metricsRows = <<>>
    /\ input = <<>>
    /\ output = [downloaded |-> <<>>, loaded |-> <<>>]
    /\ draft = NoDraft
    /\ edits = 0
    /\ store = NoMarks
    /\ uploads = <<>>
    /\ requests = [posted |-> {}, consumed |-> {}, deleted |-> {}]
    /\ phone = [sessionId |-> Null, opened |-> 0, processed |-> {}, runs |-> 0,
                timer |-> 0, cancelled |-> {}, stale |-> FALSE, callbacks |-> <<>>]

\* what polling leaves alone
pollFrame == <<sessions, view, mode, granularity, rows, referenceKey, diffRows,
               metricsOf, metricsDistances, metricsRows, input, draft, store>>

\* the dialog opens: handlePhoneSessionStart(id), then the effect runs
HandlePhoneSessionStart ==
    /\ phone.sessionId = Null
    /\ phone.opened < Len(DialogSessions)
    /\ edits < MaxCallbacks
    /\ phone' = Rerun([phone EXCEPT !.processed = {}, !.opened = @ + 1],
                      Str(DialogSessions[phone.opened + 1]))
    /\ edits' = edits + 1
    /\ output' = [output EXCEPT !.downloaded = <<>>]
    /\ UNCHANGED <<pollFrame, uploads, requests>>

\* the dialog closes: handlePhoneSessionEnd(), then the effect's cleanup
HandlePhoneSessionEnd ==
    /\ phone.sessionId # Null
    /\ phone' = Rerun(phone, Null)
    /\ UNCHANGED <<pollFrame, edits, output, uploads, requests>>

\* the interval of the running effect fires
IntervalTick ==
    /\ phone.timer # 0
    /\ edits < MaxCallbacks
    /\ phone' = [phone EXCEPT !.callbacks =
                    Append(@, Started(phone.timer, phone.sessionId[2]))]
    /\ edits' = edits + 1
    /\ UNCHANGED <<pollFrame, output, uploads, requests>>

\* loadFile replaced fileUrl: the effect runs again for the same session
EffectRerun ==
    /\ phone.stale
    /\ phone.sessionId = Null \/ edits < MaxCallbacks
    /\ phone' = Rerun(phone, phone.sessionId)
    /\ edits' = IF phone.sessionId = Null THEN edits ELSE edits + 1
    /\ UNCHANGED <<pollFrame, output, uploads, requests>>

\* the phone page posts a video for a session whose QR code it scanned
PhonePosts ==
    /\ Cardinality(requests.posted) < MaxPhoneUploads
    /\ \E opened \in 1..phone.opened :
          LET id == "u" \o ToString(Cardinality(requests.posted) + 1)
              answer == PostUploads(uploads, Str(DialogSessions[opened]), <<"video">>, <<id>>)
          IN  /\ uploads' = answer.uploads
              /\ requests' = [requests EXCEPT
                                 !.posted = @ \cup {[id |-> id,
                                                     sessionId |-> DialogSessions[opened]]}]
    /\ UNCHANGED <<pollFrame, edits, output, phone>>

\* the relay answers a callback's list request
ListAnswered ==
    /\ \E c \in DOMAIN phone.callbacks :
          /\ phone.callbacks[c].at = "list"
          /\ phone' = [phone EXCEPT
                          !.callbacks[c].payload =
                              GetUploads(uploads, phone.callbacks[c].sessionId).body,
                          !.callbacks[c].at = "find"]
    /\ UNCHANGED <<pollFrame, edits, output, uploads, requests>>

\* the callback resumes with the payload: find, add, and the media request,
\* which output.downloaded records for the session
FindNextUpload ==
    /\ \E c \in DOMAIN phone.callbacks :
          /\ phone.callbacks[c].at = "find"
          /\ LET nextUpload == FindNext(phone.callbacks[c].payload, phone.processed)
             IN  \/ /\ nextUpload = Null
                    /\ phone' = [phone EXCEPT !.callbacks = Returned(@, c)]
                    /\ output' = output
                 \/ /\ nextUpload # Null
                    /\ phone' = [phone EXCEPT
                                    !.processed = Processed(@, nextUpload),
                                    !.callbacks[c].upload = nextUpload,
                                    !.callbacks[c].at = "download"]
                    /\ output' = [output EXCEPT !.downloaded = Append(@, nextUpload[2])]
    /\ UNCHANGED <<pollFrame, edits, uploads, requests>>

\* the media request is answered: the file, or a failure the callback throws on
MediaAnswered ==
    /\ \E c \in DOMAIN phone.callbacks :
          /\ phone.callbacks[c].at = "download"
          /\ \/ phone' = [phone EXCEPT !.callbacks[c].at = "blob"]
             \/ phone' = [phone EXCEPT !.callbacks = Returned(@, c)]
    /\ UNCHANGED <<pollFrame, edits, output, uploads, requests>>

\* the blob is read: a cancelled callback returns, another calls loadFile,
\* which replaces fileUrl
BlobRead ==
    /\ \E c \in DOMAIN phone.callbacks :
          /\ phone.callbacks[c].at = "blob"
          /\ \/ /\ phone.callbacks[c].effect \in phone.cancelled
                /\ phone' = [phone EXCEPT !.callbacks = Returned(@, c)]
                /\ output' = output
             \/ /\ phone.callbacks[c].effect \notin phone.cancelled
                /\ phone' = [phone EXCEPT !.callbacks[c].at = "load", !.stale = TRUE]
                /\ output' = [output EXCEPT
                                 !.loaded = Append(@, phone.callbacks[c].upload[2])]
    /\ UNCHANGED <<pollFrame, edits, uploads, requests>>

\* loadFile resolved: the dialog is closed, which ends the session, and the
\* consume request is sent
FileLoaded ==
    /\ \E c \in DOMAIN phone.callbacks :
          /\ phone.callbacks[c].at = "load"
          /\ phone' = [Rerun(phone, Null) EXCEPT !.callbacks[c].at = "consume",
                                                !.stale = phone.stale]
    /\ UNCHANGED <<pollFrame, edits, output, uploads, requests>>

\* the relay answers the consume request, whose answer the callback drops
ConsumeAnswered ==
    /\ \E c \in DOMAIN phone.callbacks :
          /\ phone.callbacks[c].at = "consume"
          /\ LET answer == ConsumeUpload(uploads, phone.callbacks[c].upload[2])
             IN  /\ uploads' = answer.uploads
                 /\ requests' = IF answer.status = 200
                                THEN [requests EXCEPT
                                         !.consumed = @ \cup {phone.callbacks[c].upload[2]}]
                                ELSE requests
          /\ phone' = [phone EXCEPT !.callbacks = Returned(@, c)]
    /\ UNCHANGED <<pollFrame, edits, output>>

PollNext ==
    \/ HandlePhoneSessionStart
    \/ HandlePhoneSessionEnd
    \/ IntervalTick
    \/ EffectRerun
    \/ PhonePosts
    \/ ListAnswered
    \/ FindNextUpload
    \/ MediaAnswered
    \/ BlobRead
    \/ FileLoaded
    \/ ConsumeAnswered

PollSpec == PollInit /\ [][PollNext]_vars

----------------------------------------------------------------------------
(* The draft claims *)

\* the canonical labels of the draft's distance list
DraftLabels(current) ==
    {distanceToLabel(current.distances[i]) : i \in DOMAIN current.distances}

\* label has a recorded mark in marks
IsRecorded(marks, label) == ~IsNullish(Get(marks, label))

\* the step just taken edited the distance list
DistanceEdit ==
    view' \in {"handleApplySplits", "handleDistanceChange", "handleDistanceRemove",
               "handleDistanceAdd"}

\* C24: after any sequence of draft operations draft.distances is strictly
\* increasing, holds only positive values, has pairwise distinct canonical
\* labels and no distance whose label is "15"
C24_SanitizedDistances ==
    draft # NoDraft =>
        LET distances == draft.distances
        IN  /\ \A i \in DOMAIN distances : \A j \in DOMAIN distances :
                  i < j => /\ distances[i] < distances[j]
                           /\ distanceToLabel(distances[i]) # distanceToLabel(distances[j])
            /\ \A i \in DOMAIN distances :
                  distances[i] > 0 /\ distanceToLabel(distances[i]) # "15"

\* the labels capture-next walks through, as the claim orders them: the three
\* fixed labels, then the labels of the distances in ascending order
CaptureOrder(current) ==
    LET sorted == SortedFromSet(Range(current.distances))
    IN  <<"Start time", "Reaction time", "15">>
        \o Distinct([i \in DOMAIN sorted |-> distanceToLabel(sorted[i])], {})

\* the positions of CaptureOrder whose mark is not recorded
OpenLabels(current) ==
    {i \in DOMAIN CaptureOrder(current) :
        ~IsRecorded(current.marks_abs, CaptureOrder(current)[i])}

\* C25: an invocation of capture-next writes at most one mark, the mark of
\* the first label (Start time, Reaction time, 15, then the distance labels
\* ascending) that has none, and writes it whenever the player has a time;
\* every other mark is left as it was, no other label is written while Start
\* time is unset, and nothing changes once every label has a mark
C25_CaptureNext ==
    [][(view' = "handleCaptureNext" /\ draft # NoDraft) =>
          LET order == CaptureOrder(draft)
              open == OpenLabels(draft)
              first == order[Min(open)]
              written == {label \in DOMAIN draft'.marks_abs :
                            Get(draft.marks_abs, label) # draft'.marks_abs[label]}
          IN  /\ [draft' EXCEPT !.marks_abs = draft.marks_abs] = draft
              /\ DOMAIN draft.marks_abs \subseteq DOMAIN draft'.marks_abs
              /\ open = {} => draft' = draft
              /\ open # {} =>
                    /\ written \subseteq {first}
                    /\ input'.currentTime # Undefined =>
                          draft'.marks_abs[first] = input'.currentTime
                    /\ ~IsRecorded(draft.marks_abs, "Start time") =>
                          written \subseteq {"Start time"}]_vars

\* a capture wrote the mark of the first distance while a later distance has none
C25_Witness ==
    /\ view = "handleCaptureNext"
    /\ draft # NoDraft
    /\ Len(draft.distances) >= 2
    /\ input.currentTime # Undefined
    /\ draft.marks_abs[distanceToLabel(draft.distances[1])] = input.currentTime
    /\ ~IsRecorded(draft.marks_abs, distanceToLabel(draft.distances[2]))

\* C26: after any sequence of distance edits marks_abs has a key for
\* "Start time", "Reaction time", "15" and for the label of every distance of
\* the draft, and an edit of the distance list neither changes nor removes a
\* mark that was recorded
C26_MarksKept ==
    [][DistanceEdit =>
          /\ {"Start time", "Reaction time", "15"} \cup DraftLabels(draft')
                \subseteq DOMAIN draft'.marks_abs
          /\ \A label \in DOMAIN draft.marks_abs :
                IsRecorded(draft.marks_abs, label) =>
                    /\ label \in DOMAIN draft'.marks_abs
                    /\ draft'.marks_abs[label] = draft.marks_abs[label]]_vars

\* a distance that had a recorded mark was edited away: its mark is still there
C26_Witness ==
    /\ view \in {"handleApplySplits", "handleDistanceChange", "handleDistanceRemove"}
    /\ \E label \in DOMAIN draft.marks_abs :
          /\ label \notin {"Start time", "Reaction time", "15"} \cup DraftLabels(draft)
          /\ IsRecorded(draft.marks_abs, label)

\* C28: every add-distance grows draft.distances by exactly one element, and
\* the new element is greater than the previous last distance
C28_AddGrowsByOne ==
    [][view' = "handleDistanceAdd" =>
          /\ Len(draft'.distances) = Len(draft.distances) + 1
          /\ \E new \in Range(draft'.distances) :
                /\ Range(draft'.distances) = Range(draft.distances) \cup {new}
                /\ \A i \in DOMAIN draft.distances : new > draft.distances[i]]_vars

----------------------------------------------------------------------------
(* The store claims *)

\* the JSON handed to the last import is invalid or has no sessions array
NoSessionsArray ==
    \/ input.json.parse = "throws"
    \/ input.json.value[1] # "object"
    \/ "sessions" \notin DOMAIN input.json.value[2]
    \/ input.json.value[2]["sessions"][1] # "array"

\* the list of the last import, which has a sessions array
ImportedList == input.json.value[2]["sessions"][2]

ImportedKeys == {ImportedList[i].videoKey : i \in DOMAIN ImportedList}

\* the last import returned
ImportSucceeded == view = "importSessions" /\ output.error = Null

\* what the claim says of every stored key outside the import, of the count,
\* and of a JSON without a sessions array
ImportFrame ==
    /\ ImportSucceeded =>
          /\ \A key \in DOMAIN input.stored \ ImportedKeys :
                key \in DOMAIN store /\ store[key] = input.stored[key]
          /\ output.returned = Num(Len(ImportedList) * Unit)
    /\ (view = "importSessions" /\ NoSessionsArray) =>
          /\ output.error # Null
          /\ store = input.stored

\* C22: after a successful importSessions the store holds, under each
\* imported videoKey, the last session of the list with that key; every
\* stored session whose key is not imported is unchanged and the count is
\* the length of the list; a JSON that is invalid or has no sessions array
\* makes the call throw and leaves the store unchanged
C22_ImportLastWins ==
    /\ ImportFrame
    /\ ImportSucceeded =>
          \A i \in DOMAIN ImportedList :
             (\A j \in DOMAIN ImportedList :
                 j > i => ImportedList[j].videoKey # ImportedList[i].videoKey)
             => /\ ImportedList[i].videoKey \in DOMAIN store
                /\ store[ImportedList[i].videoKey] = ImportedList[i]

\* C22 as stated: the store holds each imported session under its videoKey
C22_ImportEach ==
    /\ ImportFrame
    /\ ImportSucceeded =>
          \A i \in DOMAIN ImportedList :
             /\ ImportedList[i].videoKey \in DOMAIN store
             /\ store[ImportedList[i].videoKey] = ImportedList[i]

\* an import replaced the session stored under key1 and left another alone
C22_Witness ==
    /\ ImportSucceeded
    /\ "key1" \in DOMAIN input.stored
    /\ "key1" \in ImportedKeys
    /\ store["key1"] # input.stored["key1"]
    /\ DOMAIN input.stored \ ImportedKeys # {}

----------------------------------------------------------------------------
(* The relay claims *)

\* the identifiers posted with sessionId that were neither consumed nor deleted
Pending(sessionId) ==
    {record.id : record \in {r \in requests.posted : r.sessionId = sessionId}}
    \ (requests.consumed \cup requests.deleted)

\* C30: GET /api/uploads/:sessionId returns exactly the records posted with
\* that sessionId that were neither consumed nor deleted, a consumed record
\* is never listed, and consume or delete of an unknown id answers 404 and
\* leaves the stored records unchanged
C30_RelayListing ==
    /\ view = "list" =>
          /\ output.status = 200
          /\ IdsOf(output.body) = Pending(input.sessionId)
          /\ Len(output.body) = Cardinality(Pending(input.sessionId))
          /\ \A i \in DOMAIN output.body :
                /\ output.body[i].sessionId = input.sessionId
                /\ output.body[i].id \notin requests.consumed
    /\ (view \in {"consume", "delete"} /\ input.id \notin IdsOf(input.uploads)) =>
          /\ output.status = 404
          /\ uploads = input.uploads

\* a listing that leaves out a consumed record of the session and holds another
C30_Witness ==
    /\ view = "list"
    /\ output.body # <<>>
    /\ \E record \in requests.posted :
          record.sessionId = input.sessionId /\ record.id \in requests.consumed

----------------------------------------------------------------------------
(* The polling claim *)

\* how often id occurs in the list of downloads or loads
Times(list, id) == Cardinality({i \in DOMAIN list : list[i] = id})

\* C29: within a polling session (from one handlePhoneSessionStart to the
\* next) the download of every upload id is requested at most once, and the
\* upload is loaded into the annotator at most once, whatever the order in
\* which the callbacks, the effect runs and the relay's answers interleave;
\* an upload is consumed on the relay only after it was loaded
C29_AtMostOnce ==
    \A record \in requests.posted :
       /\ Times(output.downloaded, record.id) <= 1
       /\ Times(output.loaded, record.id) <= 1
       /\ record.id \in requests.consumed => Times(output.loaded, record.id) = 1

\* two callbacks hold the same listing, one has loaded the upload and the
\* other is still to look for its next upload
C29_Witness ==
    /\ output.loaded # <<>>
    /\ \E c \in DOMAIN phone.callbacks :
          /\ phone.callbacks[c].at = "find"
          /\ \E i \in DOMAIN phone.callbacks[c].payload :
                phone.callbacks[c].payload[i].id = output.loaded[1]

====
